---- MODULE Spec2Model ----
(***************************************************************************)
(* Client-side session orchestration of the nauth React example:           *)
(*   - RefreshingFetchAdapter (lib/authHttpAdapter): 401 -> refresh ->     *)
(*     retry, with a single in-flight refresh promise;                     *)
(*   - AuthProvider (context/AuthContext): the controller state            *)
(*     {user, challenge, isLoading} driven by the SDK's four events, the   *)
(*     startup hydration and the background profile fetch.                 *)
(***************************************************************************)
EXTENDS Integers, Sequences, FiniteSets, TLC

\* ------------------------------------------------------------------ bounds

\* Number of concurrent adapter.request calls issued by callers.
NReq == 3

Reqs == 1..NReq

\* A refresh is started by a request's catch block, at most once per request.
RefreshIds == 1..NReq

\* Cap on background getProfile() calls of the auth:success handler in flight.
MaxBackground == 2

\* Invocations of one mount's effect: two under React StrictMode in development.
MaxEffectRuns == 2

\* Longest challengeParameters.allowedMethods array of an MFA setup challenge.
MaxAllowed == 2

\* Invocations of the AuthProvider function component that are followed.
MaxRenders == 3

\* ------------------------------------------------------------- data model

NULL == 0

\* this.client: null until setClient has run, then the NAuthClient.
NoClient == "null"
NAuthClientRef == "NAuthClient"

\* URLs as sequences of tokens; '/' is a token of its own.
ProfileUrl == << "/", "auth", "/", "profile" >>
RefreshUrl == << "/", "auth", "/", "refresh" >>
Urls == { ProfileUrl, RefreshUrl }
\* The request of client.exchangeSocialRedirect.
ExchangeUrl == << "/", "auth", "/", "social", "/", "exchange" >>

\* String.prototype.includes on token sequences: needle occurs contiguously.
Includes(hay, needle) ==
  \E i \in 1..(Len(hay) - Len(needle) + 1) :
    SubSeq(hay, i, i + Len(needle) - 1) = needle

\* What inner.request / a promise can deliver.  kind: "none" (nothing yet),
\* "response" (2xx), "error" (thrown by the inner FetchAdapter),
\* "refreshRejection" (the rejection of the shared refresh promise).
\* nauth: err instanceof NAuthClientError; refresh: the refresh promise whose
\* rejection it is.
NoResult == [kind |-> "none", nauth |-> FALSE, statusCode |-> 0, refresh |-> 0]
Response == [kind |-> "response", nauth |-> FALSE, statusCode |-> 200, refresh |-> 0]
Err(n, s) == [kind |-> "error", nauth |-> n, statusCode |-> s, refresh |-> 0]
\* NAuthClientError 401 / 500, and an error of another class that carries 401.
Errors == { Err(TRUE, 401), Err(TRUE, 500), Err(FALSE, 401) }
\* What the retry can end with; the code hands it on without looking at it.
RetryOutcomes == { Response, Err(TRUE, 401), Err(TRUE, 500) }
RefreshRejection(g) == [kind |-> "refreshRejection", nauth |-> FALSE, statusCode |-> 0, refresh |-> g]

\* AuthUser | null.  CachedUser is the snapshot the SDK holds (restored from
\* storage, or set before auth:success); ProfileUser is what getProfile() fetched.
NoUser == "null"
CachedUser == "cached user"
ProfileUser == "fetched profile"

\* AuthResponse | null.  A pending response has a challengeName and a session
\* (the continuation token); a terminal one has neither.
\* challengeParameters is kept as the one thing read from it, the MFA method
\* ("" when the response names none).
AuthResponse(name, session) ==
  [challengeName |-> name, session |-> session, challengeParameters |-> ""]
NoChallenge == AuthResponse("null", "null")
Terminal == AuthResponse("", "")
Challenges == { AuthResponse("MFA_REQUIRED", "s1"), AuthResponse("VERIFY_EMAIL", "s2") }
Responses == { Terminal } \cup Challenges
\* response.challengeName is set
HasChallengeName(resp) == resp # NoChallenge /\ resp.challengeName # ""

\* An MFA_REQUIRED response whose challengeParameters name the method.
MfaRequired(method, session) ==
  [challengeName |-> "MFA_REQUIRED", session |-> session, challengeParameters |-> method]

\* One pending response of every kind of AuthChallenge, each under its own
\* continuation token.
ChallengeKinds ==
  { AuthResponse("VERIFY_EMAIL", "t1"), AuthResponse("VERIFY_PHONE", "t2"),
    MfaRequired("totp", "t3"), MfaRequired("sms", "t4"),
    AuthResponse("MFA_SETUP_REQUIRED", "t5"),
    AuthResponse("FORCE_CHANGE_PASSWORD", "t6") }
ResponseKinds == { Terminal } \cup ChallengeKinds

\* getMFAMethod(challenge): the method named by challengeParameters.
getMFAMethod(resp) == resp.challengeParameters

\* A ChallengeResponse; a field the object literal does not have is Absent.
Absent == "absent"
TypedCode == "code.trim()"
DeviceId == "deviceId"
ChallengeResponse(type, session, method, code, setupData) ==
  [type |-> type, session |-> session, method |-> method, code |-> code,
   setupData |-> setupData, newPassword |-> Absent]
\* setupData: { deviceId } or { code }; NoSetupData when the literal has no setupData.
SetupData(deviceId, code) == [deviceId |-> deviceId, code |-> code]
NoSetupData == SetupData(Absent, Absent)
NoResponse == ChallengeResponse("", "", Absent, Absent, NoSetupData)

\* What getSetupData resolves with, as far as the page reads it:
\* setupData.autoCompleted, for the method asked.
SetupResult(method, auto) == [method |-> method, autoCompleted |-> auto]
NoSetupResult == SetupResult("null", FALSE)

\* MfaSetupPage: type Method = 'email' | 'sms'; selectedMethod is a Method or null.
Methods == { "email", "sms" }
NoMethod == "null"

\* challengeParameters.allowedMethods as MfaSetupPage reads it: an array of
\* method names of the remote service, or not an array (the parameter is
\* missing).
MethodNames == { "email", "sms", "totp" }
ArrayOf(items) == [isArray |-> TRUE, items |-> items]
NoAllowedMethods == [isArray |-> FALSE, items |-> << >>]
RawAllowedMethods ==
  { NoAllowedMethods } \cup
  { ArrayOf(items) : items \in UNION { [1..n -> MethodNames] : n \in 0..MaxAllowed } }

\* Array.prototype.includes
ArrayIncludes(arr, x) == \E i \in 1..Len(arr) : arr[i] = x

\* What a user-initiated operation can reject with: an error of the remote
\* service, or the rejection of the refresh the adapter awaited for it.
Rejections == { Err(TRUE, 500), Err(TRUE, 401), RefreshRejection(1) }

\* The two AuthProvider sources: context/AuthContext, and the earlier one kept
\* after LoginPage.  They differ in the auth:success handler and in
\* handleOAuthCallback.
CurrentVariant == "current"
EarlierVariant == "earlier"
Variants == { CurrentVariant, EarlierVariant }

\* The value of lastEvent after a step that ran no handler or callback of interest.
NoEvent == [type |-> "", user |-> NoUser, challenge |-> NoChallenge]

\* ---------------------------------------------------------------- state

VARIABLES
  client,          \* RefreshingFetchAdapter.client: NoClient or NAuthClientRef
  refreshPromise,  \* RefreshingFetchAdapter.refreshPromise: NULL or a refresh id
  refreshStage,    \* per refresh id: where the promise chain of doRefresh is
  refreshOutcome,  \* history: how refreshTokens() itself settled ("", "ok", "err")
  refreshCalls,    \* history: number of client.refreshTokens() calls so far
  clears,          \* history: number of times the finally callback has run
  pc,              \* per request: position inside request()
  url,             \* per request: config.url
  attempts,        \* per request: number of inner.request calls made
  joined,          \* per request: the refresh promise it awaits (or NULL)
  firstErr,        \* history: what the first attempt threw
  attachedAtFail,  \* history: canRefresh when the catch block ran
  clearsAtJoin,    \* history: value of clears when the request called doRefresh
  doRefreshCalls,  \* history: number of doRefresh() calls the request made
  startedRefresh,  \* history: the request's doRefresh call created the promise
  retryStage,      \* history: stage of the awaited refresh when the retry was issued
  retryConfig,     \* history: the config handed to the second inner.request call
  result           \* per request: what request() returned or threw

avars == << client, refreshPromise, refreshStage, refreshOutcome, refreshCalls, clears,
            pc, url, attempts, joined, firstErr, attachedAtFail, clearsAtJoin,
            doRefreshCalls, startedRefresh, retryStage, retryConfig, result >>

\* The adapter's own fields, the promise chains, and the requests.
handleVars == << refreshPromise, refreshStage, refreshOutcome, refreshCalls, clears >>
reqVars == << pc, url, attempts, joined, firstErr, attachedAtFail, clearsAtJoin,
              doRefreshCalls, startedRefresh, retryStage, retryConfig, result >>

VARIABLES
  user,            \* AuthProvider state: useState<AuthUser | null>
  challenge,       \* AuthProvider state: useState<AuthResponse | null>
  isLoading,       \* AuthProvider state: useState(true)
  mounted,         \* the effect's "let mounted"; false once the cleanup has run
  hydration,       \* position of the hydration async function
  current,         \* hydration's "const current"
  background,      \* number of the auth:success handler's getProfile() calls in flight
  sdkUser,         \* the SDK's cache behind client.getCurrentUser()
  storedUser,      \* persisted storage: the user initialize() restores
  storedChallenge, \* persisted storage: what getStoredChallenge() returns
  lastEvent,       \* history: the handler or callback that ran in the last step, if any
  expired          \* history: auth:session_expired was handled and no auth:success since

pvars == << user, challenge, isLoading, mounted, hydration, current, background,
            sdkUser, storedUser, storedChallenge, lastEvent, expired >>

VARIABLES
  variant,         \* which AuthProvider source is running
  route,           \* react-router: the current location's path
  routeChallenge,  \* react-router: location.state.response (NoChallenge if none)
  loginPc,         \* LoginPage.handleSubmit: "idle", "pending", "resolved"
  loginResponse,   \* LoginPage.handleSubmit: const response
  respondPc,       \* ChallengePage.handleSubmit: "idle", "pending", "resolved"
  answered,        \* ChallengePage.handleSubmit: the challenge its response was built from
  respondResponse, \* ChallengePage.handleSubmit: const response
  lastOp           \* history: the operation whose promise settled last

pageVars == << route, routeChallenge, loginPc, loginResponse, respondPc, answered,
               respondResponse, lastOp >>

VARIABLES
  errorParam,        \* the landing URL has an "error" query parameter
  tokenParam,        \* the landing URL has an "exchangeToken" query parameter
  ranRef,            \* OAuthCallbackPage: ranRef.current
  effectRuns,        \* history: invocations of OAuthCallbackPage's effect
  oauthPc,           \* position of handleOAuthCallback and of the page's then/catch
  exchangeResponse,  \* handleOAuthCallback: const response
  oauthResult,       \* what handleOAuthCallback resolved with ("" while it has not)
  errorMsg,          \* OAuthCallbackPage: errorMsg is set
  oauthRuns,         \* history: calls of handleOAuthCallback
  exchangeCalls,     \* history: calls of client.exchangeSocialRedirect
  exchangeRequests,  \* history: exchange requests the adapter handed to the transport
  exchangeRejected,  \* history: the remote service has rejected the exchange token
  oauthProfileCalls, \* history: calls of client.getProfile() by handleOAuthCallback
  oauthWrites        \* history: setUser / setChallenge calls by handleOAuthCallback

oauthVars == << errorParam, tokenParam, ranRef, effectRuns, oauthPc, exchangeResponse,
                oauthResult, errorMsg, oauthRuns, exchangeCalls, exchangeRequests,
                exchangeRejected, oauthProfileCalls, oauthWrites >>

VARIABLES
  sent,                  \* history: the last ChallengeResponse given to respondToChallenge
  sentBy,                \* history: the page that built it
  resent,                \* handleResend: the challenge whose session the call in flight was given
  resendPc,              \* handleResend: "idle", "pending", "cooldown"
  step,                  \* MfaSetupPage: step
  selectedMethod,        \* MfaSetupPage: selectedMethod
  autoCompletedDeviceId, \* MfaSetupPage: autoCompletedDeviceId is set
  setupPc,               \* MfaSetupPage: "idle", "getSetupData", "respond"
  setupData,             \* history: the setup data the last getSetupData call returned
  setupRequest,          \* the challenge whose session the getSetupData call in flight carries
  rawAllowedMethods      \* challengeParameters.allowedMethods of the challenge MfaSetupPage shows

sentVars == << sent, sentBy >>
resendVars == << resent, resendPc >>
mfaVars == << step, selectedMethod, autoCompletedDeviceId, setupPc, setupData,
             setupRequest, rawAllowedMethods >>
cvars == << sentVars, resendVars, mfaVars >>

VARIABLES
  adapterRef,      \* adapterRef.current: 0 is null, n the n-th adapter constructed
  clientRef,       \* clientRef.current: 0 is null, n the n-th client constructed
  adaptersBuilt,   \* history: new RefreshingFetchAdapter(...) evaluations
  clientsBuilt,    \* history: new NAuthClient(...) evaluations
  setClientCalls,  \* history: adapter.setClient(...) calls made by the provider
  renders,         \* history: invocations of the component function
  committed        \* React has committed the provider: its effects may run

renderVars == << adapterRef, clientRef, adaptersBuilt, clientsBuilt, setClientCalls,
                 renders, committed >>

uvars == << variant, renderVars, pageVars, oauthVars, cvars >>

vars == << avars, pvars, uvars >>

\* The event whose handler ran in this step, with the state it found.
Handled(t) == [type |-> t, user |-> user, challenge |-> challenge]

\* ------------------------------------------------ RefreshingFetchAdapter

AdapterAtRest ==
  /\ refreshPromise = NULL
  /\ refreshStage = [g \in RefreshIds |-> "none"]
  /\ refreshOutcome = [g \in RefreshIds |-> ""]
  /\ refreshCalls = 0
  /\ clears = 0
  /\ pc = [r \in Reqs |-> "idle"]
  /\ url = [r \in Reqs |-> << >>]
  /\ attempts = [r \in Reqs |-> 0]
  /\ joined = [r \in Reqs |-> NULL]
  /\ firstErr = [r \in Reqs |-> NoResult]
  /\ attachedAtFail = [r \in Reqs |-> FALSE]
  /\ clearsAtJoin = [r \in Reqs |-> 0]
  /\ doRefreshCalls = [r \in Reqs |-> 0]
  /\ startedRefresh = [r \in Reqs |-> FALSE]
  /\ retryStage = [r \in Reqs |-> ""]
  /\ retryConfig = [r \in Reqs |-> << >>]
  /\ result = [r \in Reqs |-> NoResult]

\* The refs and the construction history of a provider that React has not
\* invoked yet.
NotRendered ==
  /\ adapterRef = 0
  /\ clientRef = 0
  /\ adaptersBuilt = 0
  /\ clientsBuilt = 0
  /\ setClientCalls = 0
  /\ renders = 0
  /\ committed = FALSE

\* An adapter constructed by hand: no provider, no client of its own making.
AdapterOnly ==
  /\ adapterRef = 1
  /\ clientRef = 0
  /\ adaptersBuilt = 1
  /\ clientsBuilt = 0
  /\ setClientCalls = 0
  /\ renders = 0
  /\ committed = FALSE

\* A provider rendered once and committed.
RenderedOnce ==
  /\ adapterRef = 1
  /\ clientRef = 1
  /\ adaptersBuilt = 1
  /\ clientsBuilt = 1
  /\ setClientCalls = 1
  /\ renders = 1
  /\ committed = TRUE

InitAdapter == client = NoClient /\ AdapterAtRest /\ AdapterOnly

\* setClient(client)
SetClient ==
  /\ client = NoClient
  /\ client' = NAuthClientRef
  /\ UNCHANGED << handleVars, reqVars >>
  /\ UNCHANGED << pvars, uvars >>

\* const is401 = err instanceof NAuthClientError && err.statusCode === 401
Is401_AnyClass(err) == err.kind = "error" /\ err.statusCode = 401
Is401(err) == err.kind = "error" /\ err.nauth /\ err.statusCode = 401

\* const isRefreshEndpoint = config.url.includes('/refresh')
IsRefreshEndpoint(u) == Includes(u, << "/", "refresh" >>)

\* const canRefresh = this.client !== null
CanRefresh == client # NoClient

\* if (is401 && !isRefreshEndpoint && canRefresh)
ShouldRefresh_NoEndpointCheck(err, u) == Is401(err) /\ CanRefresh
ShouldRefresh(err, u) == Is401(err) /\ ~IsRefreshEndpoint(u) /\ CanRefresh

\* doRefresh(): if (!this.refreshPromise) -- whether refreshTokens() is called.
DoRefreshCreates_Always == TRUE
DoRefreshCreates == refreshPromise = NULL

\* doRefresh(): return this.refreshPromise.
DoRefreshHandle == IF DoRefreshCreates THEN refreshCalls + 1 ELSE refreshPromise

\* request(config): the first inner.request(config) is issued.
Request(r, u) ==
  /\ pc[r] = "idle"
  /\ \A q \in Reqs : q < r => pc[q] # "idle"   \* request ids name the order of issue
  /\ pc' = [pc EXCEPT ![r] = "inner1"]
  /\ url' = [url EXCEPT ![r] = u]
  /\ attempts' = [attempts EXCEPT ![r] = 1]
  /\ UNCHANGED << client, handleVars, joined, firstErr, attachedAtFail, clearsAtJoin,
                  doRefreshCalls, startedRefresh, retryStage, retryConfig, result >>
  /\ UNCHANGED << pvars, uvars >>

\* return await this.inner.request(config)  -- the first attempt succeeds.
InnerResolve(r) ==
  /\ pc[r] = "inner1"
  /\ pc' = [pc EXCEPT ![r] = "done"]
  /\ result' = [result EXCEPT ![r] = Response]
  /\ UNCHANGED << client, handleVars, url, attempts, joined, firstErr, attachedAtFail,
                  clearsAtJoin, doRefreshCalls, startedRefresh, retryStage, retryConfig >>
  /\ UNCHANGED << pvars, uvars >>

\* The catch block for request r and error err, up to its await or its throw:
\* await this.doRefresh() (calling refreshTokens() when no promise is set), or
\* throw err.
CatchBlock(r, err) ==
  IF ShouldRefresh(err, url[r])
    THEN /\ pc' = [pc EXCEPT ![r] = "awaitRefresh"]
         /\ joined' = [joined EXCEPT ![r] = DoRefreshHandle]
         /\ clearsAtJoin' = [clearsAtJoin EXCEPT ![r] = clears]
         /\ doRefreshCalls' = [doRefreshCalls EXCEPT ![r] = doRefreshCalls[r] + 1]
         /\ startedRefresh' = [startedRefresh EXCEPT ![r] = DoRefreshCreates]
         /\ IF DoRefreshCreates
              THEN /\ refreshCalls' = refreshCalls + 1
                   /\ refreshPromise' = refreshCalls + 1
                   /\ refreshStage' = [refreshStage EXCEPT ![refreshCalls + 1] = "pending"]
              ELSE UNCHANGED << refreshCalls, refreshPromise, refreshStage >>
         /\ UNCHANGED result
    ELSE /\ pc' = [pc EXCEPT ![r] = "done"]
         /\ result' = [result EXCEPT ![r] = err]
         /\ UNCHANGED << joined, clearsAtJoin, doRefreshCalls, startedRefresh,
                         refreshCalls, refreshPromise, refreshStage >>

\* The first attempt throws err.
InnerReject(r, err) ==
  /\ pc[r] = "inner1"
  /\ firstErr' = [firstErr EXCEPT ![r] = err]
  /\ attachedAtFail' = [attachedAtFail EXCEPT ![r] = CanRefresh]
  /\ CatchBlock(r, err)
  /\ UNCHANGED << client, refreshOutcome, clears, url, attempts, retryStage,
                  retryConfig >>
  /\ UNCHANGED << pvars, uvars >>

\* client.refreshTokens() sends its own request to the refresh endpoint through
\* this adapter.  It resolves, or its request throws err and runs the same
\* catch block with config.url = RefreshUrl: were that error taken for a
\* refreshable 401, the call would await the promise it is itself part of.
RefreshTokensResolve(g) ==
  /\ refreshStage[g] = "pending"
  /\ refreshStage' = [refreshStage EXCEPT ![g] = "resolved"]
  /\ refreshOutcome' = [refreshOutcome EXCEPT ![g] = "ok"]
  /\ UNCHANGED << client, refreshPromise, refreshCalls, clears, reqVars >>
  /\ UNCHANGED << pvars, uvars >>

RefreshTokensReject(g, err) ==
  /\ refreshStage[g] = "pending"
  /\ refreshStage' = [refreshStage EXCEPT
       ![g] = IF ShouldRefresh(err, RefreshUrl) THEN "selfAwait" ELSE "failed"]
  /\ refreshOutcome' = [refreshOutcome EXCEPT ![g] = "err"]
  /\ UNCHANGED << client, refreshPromise, refreshCalls, clears, reqVars >>
  /\ UNCHANGED << pvars, uvars >>

\* .finally(() => { this.refreshPromise = null; }): runs on either outcome.
AfterFinally_OnlyOnSuccess(g) == IF refreshStage[g] = "resolved" THEN NULL ELSE refreshPromise
AfterFinally(g) == NULL

\* .then(() => undefined) passes a rejection on, and the finally callback runs.
RefreshFinally(g) ==
  /\ refreshStage[g] \in { "resolved", "failed" }
  /\ refreshStage' = [refreshStage EXCEPT
       ![g] = IF refreshStage[g] = "resolved" THEN "clearedOk" ELSE "clearedErr"]
  /\ refreshPromise' = AfterFinally(g)
  /\ clears' = clears + 1
  /\ UNCHANGED << client, refreshOutcome, refreshCalls, reqVars >>
  /\ UNCHANGED << pvars, uvars >>

\* The promise returned by .finally settles as refreshTokens() did.
SettledAs_Swallowed(stage) == "fulfilled"
SettledAs(stage) == IF stage = "clearedOk" THEN "fulfilled" ELSE "rejected"

RefreshSettle(g) ==
  /\ refreshStage[g] \in { "clearedOk", "clearedErr" }
  /\ refreshStage' = [refreshStage EXCEPT ![g] = SettledAs(refreshStage[g])]
  /\ UNCHANGED << client, refreshPromise, refreshOutcome, refreshCalls, clears, reqVars >>
  /\ UNCHANGED << pvars, uvars >>

\* await this.doRefresh(): the continuation runs once the promise is fulfilled.
AwaitReturns_NoAwait(g) == refreshStage[g] # "none"
AwaitReturns(g) == refreshStage[g] = "fulfilled"

\* return this.inner.request(config): the parameter of request(), as it was
\* handed to the first attempt.
RetryConfig_RefreshUrl(r) == RefreshUrl
RetryConfig(r) == url[r]

\* await this.doRefresh() returns: return this.inner.request(config).
ResumeRetry(r) ==
  /\ pc[r] = "awaitRefresh"
  /\ AwaitReturns(joined[r])
  /\ pc' = [pc EXCEPT ![r] = "inner2"]
  /\ attempts' = [attempts EXCEPT ![r] = attempts[r] + 1]
  /\ retryStage' = [retryStage EXCEPT ![r] = refreshStage[joined[r]]]
  /\ retryConfig' = [retryConfig EXCEPT ![r] = RetryConfig(r)]
  /\ UNCHANGED << client, handleVars, url, joined, firstErr, attachedAtFail,
                  clearsAtJoin, doRefreshCalls, startedRefresh, result >>
  /\ UNCHANGED << pvars, uvars >>

\* await this.doRefresh() throws inside the catch block: request() rejects with it.
ResumeThrow_RetryAnyway(r) ==
  /\ pc[r] = "awaitRefresh"
  /\ refreshStage[joined[r]] = "rejected"
  /\ pc' = [pc EXCEPT ![r] = "inner2"]
  /\ attempts' = [attempts EXCEPT ![r] = attempts[r] + 1]
  /\ retryStage' = [retryStage EXCEPT ![r] = refreshStage[joined[r]]]
  /\ retryConfig' = [retryConfig EXCEPT ![r] = RetryConfig(r)]
  /\ UNCHANGED << client, handleVars, url, joined, firstErr, attachedAtFail,
                  clearsAtJoin, doRefreshCalls, startedRefresh, result >>
  /\ UNCHANGED << pvars, uvars >>

ResumeThrow(r) ==
  /\ pc[r] = "awaitRefresh"
  /\ refreshStage[joined[r]] = "rejected"
  /\ pc' = [pc EXCEPT ![r] = "done"]
  /\ result' = [result EXCEPT ![r] = RefreshRejection(joined[r])]
  /\ UNCHANGED << client, handleVars, url, attempts, joined, firstErr, attachedAtFail,
                  clearsAtJoin, doRefreshCalls, startedRefresh, retryStage, retryConfig >>
  /\ UNCHANGED << pvars, uvars >>

\* The retry settles; its outcome is the outcome of request().
RetrySettle_Recurse(r, out) ==
  /\ pc[r] = "inner2"
  /\ IF out.kind = "error"
       THEN /\ pc' = [pc EXCEPT ![r] = "inner1"]
            /\ attempts' = [attempts EXCEPT ![r] = attempts[r] + 1]
            /\ UNCHANGED result
       ELSE /\ pc' = [pc EXCEPT ![r] = "done"]
            /\ result' = [result EXCEPT ![r] = out]
            /\ UNCHANGED attempts
  /\ UNCHANGED << client, handleVars, url, joined, firstErr, attachedAtFail,
                  clearsAtJoin, doRefreshCalls, startedRefresh, retryStage, retryConfig >>
  /\ UNCHANGED << pvars, uvars >>

RetrySettle(r, out) ==
  /\ pc[r] = "inner2"
  /\ pc' = [pc EXCEPT ![r] = "done"]
  /\ result' = [result EXCEPT ![r] = out]
  /\ UNCHANGED << client, handleVars, url, attempts, joined, firstErr, attachedAtFail,
                  clearsAtJoin, doRefreshCalls, startedRefresh, retryStage, retryConfig >>
  /\ UNCHANGED << pvars, uvars >>

NextAdapter ==
  \/ SetClient
  \/ \E r \in Reqs, u \in Urls : Request(r, u)
  \/ \E r \in Reqs : InnerResolve(r)
  \/ \E r \in Reqs, err \in Errors : InnerReject(r, err)
  \/ \E g \in RefreshIds : RefreshTokensResolve(g)
  \/ \E g \in RefreshIds, err \in Errors : RefreshTokensReject(g, err)
  \/ \E g \in RefreshIds : RefreshFinally(g)
  \/ \E g \in RefreshIds : RefreshSettle(g)
  \/ \E r \in Reqs : ResumeRetry(r)
  \/ \E r \in Reqs : ResumeThrow(r)
  \/ \E r \in Reqs, out \in RetryOutcomes : RetrySettle(r, out)

\* ------------------------------------------------------------ AuthProvider

\* useState initial values, and the effect has run: handlers subscribed,
\* hydration started (await client.initialize()).
InitProviderState ==
  /\ user = NoUser
  /\ challenge = NoChallenge
  /\ isLoading = TRUE
  /\ mounted = TRUE
  /\ hydration = "initialize"
  /\ current = NoUser
  /\ background = 0
  /\ sdkUser = NoUser
  /\ lastEvent = NoEvent
  /\ expired = FALSE

InitProvider ==
  /\ InitProviderState
  /\ storedUser \in { NoUser, CachedUser }
  /\ storedChallenge \in { NoChallenge } \cup Challenges

\* client.on('auth:success', ...): the SDK has set and stored its current user
\* before it emits.  The handler clears challenge, sets user from the cache
\* (current source only: if (currentUser) setUser(currentUser)) and starts
\* getProfile().
OptimisticUser == IF variant = CurrentVariant THEN CachedUser ELSE user

\* auth:success: setChallenge(null)
ClearedChallenge_Kept == challenge

ClearedChallenge == NoChallenge

AuthSuccessHandler ==
  /\ mounted => background < MaxBackground
  /\ sdkUser' = CachedUser
  /\ storedUser' = CachedUser
  /\ storedChallenge' = NoChallenge
  /\ IF mounted
       THEN /\ challenge' = ClearedChallenge
            /\ user' = OptimisticUser
            /\ background' = background + 1
            /\ lastEvent' = Handled("auth:success")
            /\ expired' = FALSE
       ELSE UNCHANGED << challenge, user, background, lastEvent, expired >>
  /\ UNCHANGED << isLoading, mounted, hydration, current >>

OnAuthSuccess == AuthSuccessHandler /\ UNCHANGED << avars, uvars >>

\* getProfile().then((profile) => { if (mounted) setUser(profile); }, ...)
BackgroundProfileResolve_Unguarded ==
  /\ background > 0
  /\ background' = background - 1
  /\ user' = ProfileUser
  /\ lastEvent' = Handled("background:profile")
  /\ UNCHANGED << challenge, isLoading, mounted, hydration, current, sdkUser,
                  storedUser, storedChallenge, expired >>
  /\ UNCHANGED << avars, uvars >>

BackgroundProfileResolve ==
  /\ background > 0
  /\ background' = background - 1
  /\ user' = IF mounted THEN ProfileUser ELSE user
  /\ lastEvent' = IF mounted THEN Handled("background:profile") ELSE NoEvent
  /\ UNCHANGED << challenge, isLoading, mounted, hydration, current, sdkUser,
                  storedUser, storedChallenge, expired >>
  /\ UNCHANGED << avars, uvars >>

\* getProfile().then(..., () => { if (mounted) setUser(client.getCurrentUser()); })
BackgroundFallback_Null == NoUser

BackgroundFallback == sdkUser

BackgroundProfileReject ==
  /\ background > 0
  /\ background' = background - 1
  /\ user' = IF mounted THEN BackgroundFallback ELSE user
  /\ lastEvent' = IF mounted THEN Handled("background:fallback") ELSE NoEvent
  /\ UNCHANGED << challenge, isLoading, mounted, hydration, current, sdkUser,
                  storedUser, storedChallenge, expired >>
  /\ UNCHANGED << avars, uvars >>

\* client.on('auth:challenge', (event) => ...): the SDK has stored the pending
\* challenge before it emits.
AuthChallengeHandler_ClearsUser(c) ==
  /\ storedChallenge' = c
  /\ IF mounted
       THEN /\ challenge' = c
            /\ user' = NoUser
            /\ lastEvent' = Handled("auth:challenge")
       ELSE UNCHANGED << challenge, user, lastEvent >>
  /\ UNCHANGED << isLoading, mounted, hydration, current, background, sdkUser,
                  storedUser, expired >>

AuthChallengeHandler(c) ==
  /\ storedChallenge' = c
  /\ IF mounted
       THEN /\ challenge' = c
            /\ lastEvent' = Handled("auth:challenge")
       ELSE UNCHANGED << challenge, lastEvent >>
  /\ UNCHANGED << user, isLoading, mounted, hydration, current, background, sdkUser,
                  storedUser, expired >>

OnAuthChallenge(c) == AuthChallengeHandler(c) /\ UNCHANGED << avars, uvars >>

\* client.on('auth:logout', ...): the SDK has dropped its user and its stored
\* session; setUser(null); setChallenge(null), committed
\* together (both calls are made in one synchronous callback).
OnLogout_UserOnly ==
  /\ sdkUser' = NoUser
  /\ storedUser' = NoUser
  /\ storedChallenge' = NoChallenge
  /\ IF mounted
       THEN /\ user' = NoUser
            /\ lastEvent' = Handled("auth:logout")
            /\ UNCHANGED challenge
       ELSE UNCHANGED << user, challenge, lastEvent >>
  /\ UNCHANGED << isLoading, mounted, hydration, current, background, expired >>
  /\ UNCHANGED << avars, uvars >>

OnLogout ==
  /\ sdkUser' = NoUser
  /\ storedUser' = NoUser
  /\ storedChallenge' = NoChallenge
  /\ IF mounted
       THEN /\ user' = NoUser
            /\ challenge' = NoChallenge
            /\ lastEvent' = Handled("auth:logout")
       ELSE UNCHANGED << user, challenge, lastEvent >>
  /\ UNCHANGED << isLoading, mounted, hydration, current, background, expired >>
  /\ UNCHANGED << avars, uvars >>

\* client.on('auth:session_expired', ...): emitted by the SDK when a refresh
\* has failed; setUser(null); setChallenge(null).
SessionExpiredHandler ==
  /\ sdkUser' = NoUser
  /\ storedUser' = NoUser
  /\ storedChallenge' = NoChallenge
  /\ IF mounted
       THEN /\ user' = NoUser
            /\ challenge' = NoChallenge
            /\ lastEvent' = Handled("auth:session_expired")
            /\ expired' = TRUE
       ELSE UNCHANGED << user, challenge, lastEvent, expired >>
  /\ UNCHANGED << isLoading, mounted, hydration, current, background >>

OnSessionExpired == SessionExpiredHandler /\ UNCHANGED << avars, uvars >>

\* The values JavaScript's ! takes for false among those a state variable of
\* the provider can hold (null, undefined, the empty string).
Falsy == { NoUser, "undefined", "" }

\* Context value: isAuthenticated: !!user
isAuthenticated_FromSdk == ~(sdkUser \in Falsy)
isAuthenticated == ~(user \in Falsy)

\* await client.initialize() resolves: the SDK cache holds the stored user.
\* if (!mounted) return; const current = client.getCurrentUser();
\* if (current) -> await client.getProfile(); else setUser(null), then
\* if (!mounted) return; await client.getStoredChallenge().
HydrateInitialized ==
  /\ hydration = "initialize"
  /\ sdkUser' = storedUser
  /\ IF ~mounted
       THEN /\ hydration' = "returned"
            /\ UNCHANGED << user, current >>
       ELSE /\ current' = storedUser
            /\ IF storedUser # NoUser
                 THEN /\ hydration' = "getProfile"
                      /\ UNCHANGED user
                 ELSE /\ user' = NoUser
                      /\ hydration' = "getStoredChallenge"
  /\ lastEvent' = IF mounted /\ storedUser = NoUser
                    THEN Handled("hydrate:no user") ELSE NoEvent
  /\ UNCHANGED << challenge, isLoading, mounted, background, storedUser,
                  storedChallenge, expired >>
  /\ UNCHANGED << avars, uvars >>

\* await client.initialize() rejects: the async function ends with it.
HydrateInitializeRejects ==
  /\ hydration = "initialize"
  /\ hydration' = "threw"
  /\ lastEvent' = NoEvent
  /\ UNCHANGED << user, challenge, isLoading, mounted, current, background, sdkUser,
                  storedUser, storedChallenge, expired >>
  /\ UNCHANGED << avars, uvars >>

\* The step after the try/catch: if (!mounted) return; await getStoredChallenge().
AfterUserStep == IF mounted THEN "getStoredChallenge" ELSE "returned"

\* const profile = await client.getProfile(); if (mounted) setUser(profile);
HydrateProfileResolve ==
  /\ hydration = "getProfile"
  /\ user' = IF mounted THEN ProfileUser ELSE user
  /\ hydration' = AfterUserStep
  /\ lastEvent' = IF mounted THEN Handled("hydrate:profile") ELSE NoEvent
  /\ UNCHANGED << challenge, isLoading, mounted, current, background, sdkUser,
                  storedUser, storedChallenge, expired >>
  /\ UNCHANGED << avars, uvars >>

\* catch { if (mounted) setUser(current); }
HydrationFallback_Null == NoUser

HydrationFallback == current

HydrateProfileReject ==
  /\ hydration = "getProfile"
  /\ user' = IF mounted THEN HydrationFallback ELSE user
  /\ hydration' = AfterUserStep
  /\ lastEvent' = IF mounted THEN Handled("hydrate:fallback") ELSE NoEvent
  /\ UNCHANGED << challenge, isLoading, mounted, current, background, sdkUser,
                  storedUser, storedChallenge, expired >>
  /\ UNCHANGED << avars, uvars >>

\* const storedChallenge = await client.getStoredChallenge();
\* if (!mounted) return; setChallenge(storedChallenge); setIsLoading(false);
HydrateStoredChallenge_KeepsChallenge ==
  /\ hydration = "getStoredChallenge"
  /\ IF mounted
       THEN /\ isLoading' = FALSE
            /\ hydration' = "done"
            /\ UNCHANGED challenge
       ELSE /\ hydration' = "returned"
            /\ UNCHANGED << challenge, isLoading >>
  /\ lastEvent' = NoEvent
  /\ UNCHANGED << user, mounted, current, background, sdkUser, storedUser,
                  storedChallenge, expired >>
  /\ UNCHANGED << avars, uvars >>

HydrateStoredChallenge ==
  /\ hydration = "getStoredChallenge"
  /\ IF mounted
       THEN /\ challenge' = storedChallenge
            /\ isLoading' = FALSE
            /\ hydration' = "done"
       ELSE /\ hydration' = "returned"
            /\ UNCHANGED << challenge, isLoading >>
  /\ lastEvent' = NoEvent
  /\ UNCHANGED << user, mounted, current, background, sdkUser, storedUser,
                  storedChallenge, expired >>
  /\ UNCHANGED << avars, uvars >>

\* await client.getStoredChallenge() rejects: the async function ends with it.
HydrateStoredChallengeRejects ==
  /\ hydration = "getStoredChallenge"
  /\ hydration' = "threw"
  /\ lastEvent' = NoEvent
  /\ UNCHANGED << user, challenge, isLoading, mounted, current, background, sdkUser,
                  storedUser, storedChallenge, expired >>
  /\ UNCHANGED << avars, uvars >>

\* The effect's cleanup: mounted = false; the four handlers are unsubscribed.
Unmount ==
  /\ mounted
  /\ mounted' = FALSE
  /\ lastEvent' = NoEvent
  /\ UNCHANGED << user, challenge, isLoading, hydration, current, background, sdkUser,
                  storedUser, storedChallenge, expired >>
  /\ UNCHANGED << avars, uvars >>

NextProvider ==
  \/ OnAuthSuccess
  \/ BackgroundProfileResolve
  \/ BackgroundProfileReject
  \/ \E c \in Challenges : OnAuthChallenge(c)
  \/ OnLogout
  \/ OnSessionExpired
  \/ HydrateInitialized
  \/ HydrateInitializeRejects
  \/ HydrateProfileResolve
  \/ HydrateProfileReject
  \/ HydrateStoredChallenge
  \/ HydrateStoredChallengeRejects
  \/ Unmount

\* ------------------------------------------------------------------ pages

\* OAuthCallbackPage and handleOAuthCallback before the page's effect has run.
InitLanding ==
  /\ ranRef = FALSE
  /\ effectRuns = 0
  /\ oauthPc = "idle"
  /\ exchangeResponse = NoChallenge
  /\ oauthResult = ""
  /\ errorMsg = FALSE
  /\ oauthRuns = 0
  /\ exchangeCalls = 0
  /\ exchangeRequests = 0
  /\ exchangeRejected = FALSE
  /\ oauthProfileCalls = 0
  /\ oauthWrites = 0

\* ChallengePage's resend state and MfaSetupPage's state when they mount.
InitChallengePages ==
  /\ sent = NoResponse
  /\ sentBy = ""
  /\ resent = NoChallenge
  /\ resendPc = "idle"
  /\ step = "select"
  /\ selectedMethod = NoMethod
  /\ autoCompletedDeviceId = "null"
  /\ setupPc = "idle"
  /\ setupData = NoSetupResult
  /\ setupRequest = NoChallenge

\* The pages after a page load: no operation in flight, no route state.
PagesAtRest ==
  /\ routeChallenge = NoChallenge
  /\ loginPc = "idle"
  /\ loginResponse = NoChallenge
  /\ respondPc = "idle"
  /\ answered = NoChallenge
  /\ respondResponse = NoChallenge
  /\ lastOp = ""
  /\ InitLanding
  /\ InitChallengePages

\* The challenges of a page load come without an allowedMethods parameter.
NoParameters == rawAllowedMethods = NoAllowedMethods

\* The page load is of the login route.
InitPages ==
  /\ PagesAtRest
  /\ NoParameters
  /\ route = "/login"
  /\ errorParam = FALSE
  /\ tokenParam = FALSE

\* LoginPage and SignupPage: the same handleSubmit around login() / signup().
EntryRoutes == { "/login", "/signup" }
EntryOp(r) == IF r = "/signup" THEN "signup" ELSE "login"

\* The page load is of any route; the OAuth landing comes with its two
\* optional query parameters.
InitAnyPage ==
  /\ PagesAtRest
  /\ NoParameters
  /\ route \in EntryRoutes \cup { "/auth/challenge", "/auth/callback" }
  /\ errorParam \in BOOLEAN
  /\ tokenParam \in BOOLEAN
  /\ route # "/auth/callback" => (~errorParam /\ ~tokenParam)

\* A state update of the provider made outside the effect's handlers leaves
\* everything of the provider but the fields named alone.
ProviderIdle ==
  /\ lastEvent' = NoEvent
  /\ UNCHANGED << user, challenge, isLoading, mounted, hydration, current, background,
                  sdkUser, storedUser, storedChallenge, expired >>

\* The SDK settles an operation with resp: it emits auth:challenge for a
\* pending response and auth:success for a terminal one, before the
\* operation's promise resolves.
EmitFor(resp) ==
  IF HasChallengeName(resp) THEN AuthChallengeHandler(resp) ELSE AuthSuccessHandler

\* An operation rejects with rej.  The wrappers of the provider (login,
\* signup, respondToChallenge, resendCode, getSetupData) return the client's
\* promise as it is, so the provider does nothing; when rej is the rejection of
\* the refresh the adapter awaited, the SDK has emitted auth:session_expired.
RejectedWith(rej) ==
  IF rej.kind = "refreshRejection" THEN SessionExpiredHandler ELSE ProviderIdle

\* An awaited promise that settles resumes its async function in a microtask,
\* before any other network event, timer or render: the step that settles an
\* operation includes the continuation of the function that awaited it.

\* LoginPage.handleSubmit up to "await login(email, password)"
\* (SignupPage.handleSubmit up to "await signup(...)").
LoginSubmit ==
  /\ mounted /\ route \in EntryRoutes /\ loginPc = "idle"
  /\ loginPc' = "pending"
  /\ lastOp' = ""
  /\ ProviderIdle
  /\ UNCHANGED << route, routeChallenge, loginResponse, respondPc, answered,
                  respondResponse, variant, renderVars, oauthVars, cvars >>
  /\ UNCHANGED avars

\* LoginPage.handleSubmit: if (response.challengeName)
\* navigate('/auth/challenge', { state: { response } }) else navigate('/dashboard')
LoginRoute(resp) == IF HasChallengeName(resp) THEN "/auth/challenge" ELSE "/dashboard"
LoginRouteState(resp) == IF HasChallengeName(resp) THEN resp ELSE NoChallenge

\* client.login(...) resolves with resp, and handleSubmit navigates.
LoginResolves(resp) ==
  /\ loginPc = "pending"
  /\ EmitFor(resp)
  /\ loginPc' = "idle"
  /\ loginResponse' = resp
  /\ route' = LoginRoute(resp)
  /\ routeChallenge' = LoginRouteState(resp)
  /\ lastOp' = EntryOp(route)
  /\ UNCHANGED << respondPc, answered, respondResponse, variant, renderVars, oauthVars, cvars >>
  /\ UNCHANGED avars

\* client.login(...) rejects with rej: the wrapper lets it through,
\* catch { setError(...) }, no navigation.
LoginRejects(rej) ==
  /\ loginPc = "pending"
  /\ loginPc' = "idle"
  /\ lastOp' = "rejected"
  /\ RejectedWith(rej)
  /\ UNCHANGED << route, routeChallenge, loginResponse, respondPc, answered,
                  respondResponse, variant, renderVars, oauthVars, cvars >>
  /\ UNCHANGED avars

\* ChallengePage: const challenge = routeChallenge ?? ctxChallenge
ActiveChallenge == IF routeChallenge # NoChallenge THEN routeChallenge ELSE challenge

\* ChallengePage's effect: if (!isLoading && challenge?.challengeName ===
\* AuthChallenge.MFA_SETUP_REQUIRED) navigate('/auth/mfa-setup', ...).  React
\* runs a pending effect before it handles the next event, so no handler of
\* the page runs while the effect has this navigation to make.
RedirectsToMfaSetup_Never == FALSE

RedirectsToMfaSetup ==
  ~isLoading /\ ActiveChallenge.challengeName = "MFA_SETUP_REQUIRED"

\* ChallengePage.handleSubmit: const challengeResponse = { type, session,
\* ...(MFA_REQUIRED && { method: getMFAMethod(challenge) }), code: code.trim() }
challengeResponse(c) ==
  ChallengeResponse(c.challengeName, c.session,
                    IF c.challengeName = "MFA_REQUIRED" THEN getMFAMethod(c) ELSE Absent,
                    TypedCode, NoSetupData)

\* ChallengePage.handleSubmit up to "await respondToChallenge(challengeResponse)".
\* The form is rendered only when !isLoading and a challenge is active, and
\* its button is disabled while a submission is in flight.
RespondSubmit ==
  /\ mounted /\ route = "/auth/challenge" /\ ~isLoading /\ respondPc = "idle"
  /\ HasChallengeName(ActiveChallenge) /\ ActiveChallenge.session # ""
  /\ ~RedirectsToMfaSetup
  /\ respondPc' = "pending"
  /\ answered' = ActiveChallenge
  /\ sent' = challengeResponse(ActiveChallenge)
  /\ sentBy' = "ChallengePage"
  /\ lastOp' = ""
  /\ ProviderIdle
  /\ UNCHANGED << route, routeChallenge, loginPc, loginResponse, respondResponse, variant, renderVars,
                  oauthVars, resendVars, mfaVars >>
  /\ UNCHANGED avars

\* ChallengePage.handleSubmit: if (!response.challengeName)
\* navigate('/dashboard', { replace: true })
\* else navigate('/auth/challenge', { replace: true, state: { response } })
RespondRoute_AlwaysChallenge(resp) == "/auth/challenge"
RespondRoute(resp) == IF ~HasChallengeName(resp) THEN "/dashboard" ELSE "/auth/challenge"

ChainedRouteState_Stale(resp) == routeChallenge

ChainedRouteState(resp) == resp

RespondRouteState(resp) ==
  IF ~HasChallengeName(resp) THEN NoChallenge ELSE ChainedRouteState(resp)

\* The remote service accepts the response: resp is terminal, or a further
\* challenge under a new continuation token; handleSubmit navigates.
RespondResolves(resp) ==
  /\ respondPc = "pending"
  /\ resp.session # answered.session
  /\ EmitFor(resp)
  /\ respondPc' = "idle"
  /\ respondResponse' = resp
  /\ route' = RespondRoute(resp)
  /\ routeChallenge' = RespondRouteState(resp)
  /\ lastOp' = "respond"
  /\ UNCHANGED << loginPc, loginResponse, answered, variant, renderVars, oauthVars, cvars >>
  /\ UNCHANGED avars

\* respondToChallenge rejects with rej: catch { setError(...) }.
RespondRejects(rej) ==
  /\ respondPc = "pending"
  /\ respondPc' = "idle"
  /\ lastOp' = "rejected"
  /\ RejectedWith(rej)
  /\ UNCHANGED << route, routeChallenge, loginPc, loginResponse, answered,
                  respondResponse, variant, renderVars, oauthVars, cvars >>
  /\ UNCHANGED avars

\* ChallengePage's effect: if (!isLoading && !challenge) navigate('/login').
ChallengeRedirect_WhileLoading ==
  /\ mounted /\ route = "/auth/challenge"
  /\ ActiveChallenge = NoChallenge
  /\ route' = "/login"
  /\ lastOp' = ""
  /\ ProviderIdle
  /\ UNCHANGED << routeChallenge, loginPc, loginResponse, respondPc, answered,
                  respondResponse, variant, renderVars, oauthVars, cvars >>
  /\ UNCHANGED avars

ChallengeRedirect ==
  /\ mounted /\ route = "/auth/challenge" /\ ~isLoading
  /\ ActiveChallenge = NoChallenge
  /\ route' = "/login"
  /\ lastOp' = ""
  /\ ProviderIdle
  /\ UNCHANGED << routeChallenge, loginPc, loginResponse, respondPc, answered,
                  respondResponse, variant, renderVars, oauthVars, cvars >>
  /\ UNCHANGED avars

\* ChallengePage's effect, second test: navigate('/auth/mfa-setup',
\* { replace: true, state: { response: challenge } }); MfaSetupPage mounts.
MfaSetupRedirect ==
  /\ mounted /\ route = "/auth/challenge"
  /\ RedirectsToMfaSetup
  /\ route' = "/auth/mfa-setup"
  /\ routeChallenge' = ActiveChallenge
  /\ step' = "select"
  /\ selectedMethod' = NoMethod
  /\ autoCompletedDeviceId' = "null"
  /\ setupPc' = "idle"
  /\ setupData' = NoSetupResult
  /\ setupRequest' = NoChallenge
  /\ UNCHANGED rawAllowedMethods
  /\ lastOp' = ""
  /\ ProviderIdle
  /\ UNCHANGED << loginPc, loginResponse, respondPc, answered, respondResponse, variant, renderVars,
                  oauthVars, sentVars, resendVars >>
  /\ UNCHANGED avars

\* ChallengePage: mfaMethod, isTotp, sendsCode.
mfaMethod(c) == IF c.challengeName = "MFA_REQUIRED" THEN getMFAMethod(c) ELSE "undefined"
isTotp(c) == mfaMethod(c) = "totp"
sendsCode(c) == ~isTotp(c)

\* The resend button is rendered when the page renders (!isLoading and a
\* challenge) and sendsCode; disabled={resendLoading || resendCooldown > 0}.
\* handleResend: if (!challenge?.session) return; await resendCode(challenge.session)
HandleResend ==
  /\ mounted /\ route = "/auth/challenge" /\ ~isLoading
  /\ ActiveChallenge # NoChallenge /\ ~RedirectsToMfaSetup
  /\ sendsCode(ActiveChallenge)
  /\ resendPc = "idle"
  /\ ActiveChallenge.session # ""
  /\ resent' = ActiveChallenge
  /\ resendPc' = "pending"
  /\ lastOp' = ""
  /\ ProviderIdle
  /\ UNCHANGED << route, routeChallenge, loginPc, loginResponse, respondPc, answered,
                  respondResponse, variant, renderVars, oauthVars, sentVars, mfaVars >>
  /\ UNCHANGED avars

\* resendCode resolves: setResendCooldown(60).
ResendResolves ==
  /\ resendPc = "pending"
  /\ resendPc' = "cooldown"
  /\ resent' = NoChallenge
  /\ lastOp' = ""
  /\ ProviderIdle
  /\ UNCHANGED << route, routeChallenge, loginPc, loginResponse, respondPc, answered,
                  respondResponse, variant, renderVars, oauthVars, sentVars, mfaVars >>
  /\ UNCHANGED avars

\* resendCode rejects: catch { setError(...) }.
ResendRejects(rej) ==
  /\ resendPc = "pending"
  /\ resendPc' = "idle"
  /\ resent' = NoChallenge
  /\ lastOp' = ""
  /\ RejectedWith(rej)
  /\ UNCHANGED << route, routeChallenge, loginPc, loginResponse, respondPc, answered,
                  respondResponse, variant, renderVars, oauthVars, sentVars, mfaVars >>
  /\ UNCHANGED avars

\* The countdown effect has brought resendCooldown to 0.
CooldownEnds ==
  /\ resendPc = "cooldown"
  /\ resendPc' = "idle"
  /\ lastOp' = ""
  /\ ProviderIdle
  /\ UNCHANGED << route, routeChallenge, loginPc, loginResponse, respondPc, answered,
                  respondResponse, variant, renderVars, oauthVars, sentVars, resent, mfaVars >>
  /\ UNCHANGED avars

\* ------------------------------------------------------------ MfaSetupPage

\* What the steps of MfaSetupPage leave alone.
MfaFrame ==
  /\ UNCHANGED << loginPc, loginResponse, respondPc, variant, renderVars, oauthVars, resendVars >>
  /\ UNCHANGED avars

\* if (isLoading || !challenge) return null: the page shows its current step.
MfaRenders ==
  mounted /\ route = "/auth/mfa-setup" /\ ~isLoading /\ ActiveChallenge # NoChallenge

\* MfaSetupPage's effect: if (!isLoading && !challenge) navigate('/login').
MfaSetupToLogin ==
  /\ mounted /\ route = "/auth/mfa-setup" /\ ~isLoading
  /\ ActiveChallenge = NoChallenge
  /\ route' = "/login"
  /\ lastOp' = ""
  /\ ProviderIdle
  /\ UNCHANGED << routeChallenge, answered, respondResponse, sentVars, mfaVars >>
  /\ MfaFrame

\* The provider hands out getSetupData; the earlier source's context value
\* has no such member, and calling it throws inside the try block.
HasGetSetupData == variant = CurrentVariant

\* handleSelectMethod: catch { setError(...); setSelectedMethod(null) }
AfterFailedSetup == NoMethod

\* const allowedMethods: if (Array.isArray(raw) && raw.length > 0) return
\* raw.filter((m) => m === 'email' || m === 'sms'); return ['email', 'sms'].
IsMethod(m) == m \in Methods

allowedMethods ==
  IF rawAllowedMethods.isArray /\ Len(rawAllowedMethods.items) > 0
    THEN SelectSeq(rawAllowedMethods.items, IsMethod)
    ELSE << "email", "sms" >>

\* The selection step renders a button for method:
\* allowedMethods.includes('email') / allowedMethods.includes('sms').
Offers(method) == ArrayIncludes(allowedMethods, method)

\* handleSelectMethod(method) up to "await getSetupData(challenge.session, method)".
HandleSelectMethod(method) ==
  /\ MfaRenders /\ step = "select" /\ setupPc = "idle"
  /\ Offers(method)
  /\ ActiveChallenge.session # ""
  /\ IF HasGetSetupData
       THEN /\ selectedMethod' = method /\ setupPc' = "getSetupData"
            /\ setupRequest' = ActiveChallenge
       ELSE selectedMethod' = AfterFailedSetup /\ UNCHANGED << setupPc, setupRequest >>
  /\ lastOp' = IF HasGetSetupData THEN "" ELSE "setup rejected"
  /\ ProviderIdle
  /\ UNCHANGED << route, routeChallenge, answered, respondResponse, sentVars, step,
                  autoCompletedDeviceId, setupData, rawAllowedMethods >>
  /\ MfaFrame

\* getSetupData resolves: if (data.autoCompleted === true) { set the device
\* id; setStep('auto-completed') } else { ...; setStep('otp') }
SetupDataResolves(auto) ==
  /\ setupPc = "getSetupData"
  /\ setupPc' = "idle"
  /\ setupData' = SetupResult(selectedMethod, auto)
  /\ setupRequest' = NoChallenge
  /\ step' = IF auto THEN "auto-completed" ELSE "otp"
  /\ autoCompletedDeviceId' = IF auto THEN DeviceId ELSE autoCompletedDeviceId
  /\ lastOp' = ""
  /\ ProviderIdle
  /\ UNCHANGED << route, routeChallenge, answered, respondResponse, sentVars,
                  selectedMethod, rawAllowedMethods >>
  /\ MfaFrame

\* getSetupData rejects with rej.
SetupDataRejects(rej) ==
  /\ setupPc = "getSetupData"
  /\ setupPc' = "idle"
  /\ selectedMethod' = AfterFailedSetup
  /\ setupRequest' = NoChallenge
  /\ lastOp' = "setup rejected"
  /\ RejectedWith(rej)
  /\ UNCHANGED << route, routeChallenge, answered, respondResponse, sentVars, step,
                  autoCompletedDeviceId, setupData, rawAllowedMethods >>
  /\ MfaFrame

\* handleContinueAutoCompleted: setupData: { deviceId: autoCompletedDeviceId };
\* handleSubmitCode: setupData: { code: code.trim() }
SetupDataField_AlwaysCode == SetupData(Absent, TypedCode)

SetupDataField ==
  IF step = "auto-completed"
    THEN SetupData(autoCompletedDeviceId, Absent)
    ELSE SetupData(Absent, TypedCode)

\* handleContinueAutoCompleted (step 'auto-completed') and handleSubmitCode
\* (step 'otp') up to "await respondToChallenge({ type: MFA_SETUP_REQUIRED, ... })".
\* if (!challenge?.session || !selectedMethod [|| autoCompletedDeviceId == null]) return
HandleSetupRespond ==
  /\ MfaRenders /\ step \in { "auto-completed", "otp" } /\ setupPc = "idle"
  /\ ActiveChallenge.session # "" /\ selectedMethod # NoMethod
  /\ step = "auto-completed" => autoCompletedDeviceId # "null"
  /\ setupPc' = "respond"
  /\ answered' = ActiveChallenge
  /\ sent' = [ ChallengeResponse("MFA_SETUP_REQUIRED", ActiveChallenge.session,
                                 selectedMethod, Absent, SetupDataField)
               EXCEPT !.code = Absent ]
  /\ sentBy' = "MfaSetupPage"
  /\ lastOp' = ""
  /\ ProviderIdle
  /\ UNCHANGED << route, routeChallenge, respondResponse, step, selectedMethod,
                  autoCompletedDeviceId, setupData, setupRequest,
                  rawAllowedMethods >>
  /\ MfaFrame

\* respondToChallenge resolves with resp; navigateAfterChallenge(response).
SetupRespondResolves(resp) ==
  /\ setupPc = "respond"
  /\ resp.session # answered.session
  /\ EmitFor(resp)
  /\ setupPc' = "idle"
  /\ respondResponse' = resp
  /\ route' = RespondRoute(resp)
  /\ routeChallenge' = RespondRouteState(resp)
  /\ lastOp' = "setup respond"
  /\ UNCHANGED << answered, sentVars, step, selectedMethod, autoCompletedDeviceId,
                  setupData, setupRequest, rawAllowedMethods >>
  /\ MfaFrame

\* respondToChallenge rejects with rej: catch { setError(...) }.
SetupRespondRejects(rej) ==
  /\ setupPc = "respond"
  /\ setupPc' = "idle"
  /\ lastOp' = ""
  /\ RejectedWith(rej)
  /\ UNCHANGED << route, routeChallenge, answered, respondResponse, sentVars, step,
                  selectedMethod, autoCompletedDeviceId, setupData,
                  setupRequest, rawAllowedMethods >>
  /\ MfaFrame

\* ---------------------------------------------------------- ProtectedRoute

\* ProtectedRoute, which guards the dashboard: if (isLoading) return the
\* spinner; if (!isAuthenticated) return <Navigate to="/login" replace />.
RedirectsToLogin_WhileLoading == ~isAuthenticated

RedirectsToLogin == ~isLoading /\ ~isAuthenticated

\* ProtectedRoute renders <Navigate to="/login" replace />.
ProtectedRedirect ==
  /\ mounted /\ route = "/dashboard"
  /\ RedirectsToLogin
  /\ route' = "/login"
  /\ routeChallenge' = NoChallenge
  /\ lastOp' = "bounced"
  /\ ProviderIdle
  /\ UNCHANGED << loginPc, loginResponse, respondPc, answered, respondResponse, variant, renderVars,
                  oauthVars, cvars >>
  /\ UNCHANGED avars

\* The provider with the entry pages, ChallengePage and MfaSetupPage, the
\* remote service answering with a response of any kind.  The background
\* getProfile() of the auth:success handler, which writes user only, stays
\* pending here.
NextChallenge ==
  \/ HydrateInitialized
  \/ HydrateInitializeRejects
  \/ HydrateProfileResolve
  \/ HydrateProfileReject
  \/ HydrateStoredChallenge
  \/ HydrateStoredChallengeRejects
  \/ LoginSubmit
  \/ \E resp \in ResponseKinds : LoginResolves(resp)
  \/ \E rej \in Rejections : LoginRejects(rej)
  \/ RespondSubmit
  \/ \E resp \in ResponseKinds : RespondResolves(resp)
  \/ \E rej \in Rejections : RespondRejects(rej)
  \/ ChallengeRedirect
  \/ MfaSetupRedirect
  \/ HandleResend
  \/ ResendResolves
  \/ \E rej \in Rejections : ResendRejects(rej)
  \/ CooldownEnds
  \/ MfaSetupToLogin
  \/ \E method \in Methods : HandleSelectMethod(method)
  \/ \E auto \in BOOLEAN : SetupDataResolves(auto)
  \/ \E rej \in Rejections : SetupDataRejects(rej)
  \/ HandleSetupRespond
  \/ \E resp \in ResponseKinds : SetupRespondResolves(resp)
  \/ \E rej \in Rejections : SetupRespondRejects(rej)

\* ------------------------------------------------------- OAuth completion

\* OAuthCallbackPage's effect: if (ranRef.current) return;
RanLatch_Off == FALSE

RanLatch == ranRef

\* OAuthCallbackPage's effect: if (params.get('error'))
PageSeesError_Never == FALSE

PageSeesError == errorParam

\* handleOAuthCallback: if (response.challengeName) { setChallenge(response);
\* return { user: null, needsChallenge: true } }; the earlier source does not
\* look at the response.
ChecksChallenge == variant = CurrentVariant

\* OAuthCallbackPage: .then((user) => { if (user) navigate('/dashboard') else
\* navigate('/login') }): the value is an object in the current source, an
\* AuthUser or null in the earlier one.
ThenRoute(value) ==
  IF variant = CurrentVariant \/ value = "user" THEN "/dashboard" ELSE "/login"

OAuthFrame ==
  /\ UNCHANGED << routeChallenge, loginPc, loginResponse, respondPc, answered,
                  respondResponse, variant, renderVars, errorParam, tokenParam, cvars >>
  /\ UNCHANGED avars

\* One invocation of OAuthCallbackPage's effect, with handleOAuthCallback up to
\* its first await (or to its return, when it sees the error parameter itself).
OAuthEffect ==
  /\ mounted /\ route = "/auth/callback" /\ effectRuns < MaxEffectRuns
  /\ effectRuns' = effectRuns + 1
  /\ IF RanLatch
       THEN UNCHANGED << ranRef, route, oauthPc, oauthResult, oauthRuns, exchangeCalls,
                         exchangeRequests, oauthProfileCalls >>
       ELSE /\ ranRef' = TRUE
            /\ IF PageSeesError
                 THEN /\ route' = "/login"
                      /\ oauthPc' = "done"
                      /\ UNCHANGED << oauthResult, oauthRuns, exchangeCalls,
                                      exchangeRequests, oauthProfileCalls >>
                 ELSE /\ oauthRuns' = oauthRuns + 1
                      /\ IF errorParam
                           THEN /\ oauthPc' = "done"
                                /\ oauthResult' = "no user"
                                /\ route' = ThenRoute("no user")
                                /\ UNCHANGED << exchangeCalls, exchangeRequests,
                                                oauthProfileCalls >>
                           ELSE IF tokenParam
                             THEN /\ oauthPc' = "exchange"
                                  /\ exchangeCalls' = exchangeCalls + 1
                                  /\ exchangeRequests' = exchangeRequests + 1
                                  /\ UNCHANGED << route, oauthResult, oauthProfileCalls >>
                             ELSE /\ oauthPc' = "profile"
                                  /\ oauthProfileCalls' = oauthProfileCalls + 1
                                  /\ UNCHANGED << route, oauthResult, exchangeCalls,
                                                  exchangeRequests >>
  /\ lastOp' = ""
  /\ lastEvent' = Handled("oauth:effect")
  /\ UNCHANGED << user, challenge, isLoading, mounted, hydration, current, background,
                  sdkUser, storedUser, storedChallenge, expired >>
  /\ UNCHANGED << exchangeResponse, errorMsg, exchangeRejected, oauthWrites >>
  /\ OAuthFrame

\* client.exchangeSocialRedirect(exchangeToken) resolves with resp (first
\* attempt or the adapter's retry).  With a pending challenge the current
\* source calls setChallenge(response), which writes what the auth:challenge
\* handler has just written, and returns; otherwise getProfile() is awaited.
OAuthExchangeResolves(resp) ==
  /\ oauthPc \in { "exchange", "retry" }
  /\ EmitFor(resp)
  /\ exchangeResponse' = resp
  /\ IF ChecksChallenge /\ HasChallengeName(resp)
       THEN /\ oauthWrites' = oauthWrites + 1
            /\ oauthResult' = "needsChallenge"
            /\ oauthPc' = "done"
            /\ route' = ThenRoute("needsChallenge")
            /\ UNCHANGED oauthProfileCalls
       ELSE /\ oauthPc' = "profile"
            /\ oauthProfileCalls' = oauthProfileCalls + 1
            /\ UNCHANGED << oauthWrites, oauthResult, route >>
  /\ lastOp' = "exchange"
  /\ UNCHANGED << ranRef, effectRuns, errorMsg, oauthRuns, exchangeCalls,
                  exchangeRequests, exchangeRejected >>
  /\ OAuthFrame

\* The remote service rejects the exchange request with err.  The request
\* goes through RefreshingFetchAdapter.request: a first attempt that meets
\* the refresh condition awaits a refresh; anything else is thrown, and the
\* page's catch sets errorMsg and starts the timer.
OAuthExchangeRejects(err) ==
  /\ oauthPc \in { "exchange", "retry" }
  /\ IF oauthPc = "exchange" /\ ShouldRefresh(err, ExchangeUrl)
       THEN oauthPc' = "refresh" /\ UNCHANGED errorMsg
       ELSE oauthPc' = "timer" /\ errorMsg' = TRUE
  /\ exchangeRejected' = TRUE
  /\ lastOp' = ""
  /\ ProviderIdle
  /\ UNCHANGED << route, ranRef, effectRuns, exchangeResponse, oauthResult,
                  oauthRuns, exchangeCalls, exchangeRequests, oauthProfileCalls,
                  oauthWrites >>
  /\ OAuthFrame

\* The refresh the adapter awaited fulfils: the exchange request is re-issued.
OAuthRefreshFulfils ==
  /\ oauthPc = "refresh"
  /\ oauthPc' = "retry"
  /\ exchangeRequests' = exchangeRequests + 1
  /\ lastOp' = ""
  /\ ProviderIdle
  /\ UNCHANGED << route, ranRef, effectRuns, exchangeResponse, oauthResult, errorMsg,
                  oauthRuns, exchangeCalls, exchangeRejected, oauthProfileCalls,
                  oauthWrites >>
  /\ OAuthFrame

\* The refresh rejects: the SDK emits auth:session_expired, the rejection
\* leaves request(), exchangeSocialRedirect and handleOAuthCallback, and the
\* page's catch runs.
OAuthRefreshRejects ==
  /\ oauthPc = "refresh"
  /\ SessionExpiredHandler
  /\ oauthPc' = "timer"
  /\ errorMsg' = TRUE
  /\ lastOp' = "refresh"
  /\ UNCHANGED << route, ranRef, effectRuns, exchangeResponse, oauthResult,
                  oauthRuns, exchangeCalls, exchangeRequests, exchangeRejected,
                  oauthProfileCalls, oauthWrites >>
  /\ OAuthFrame

\* const profileUser = await client.getProfile(); setUser(profileUser);
\* return ...; then the page navigates.  (An update of an unmounted provider
\* is dropped by React.)
OAuthProfileResolves ==
  /\ oauthPc = "profile"
  /\ user' = IF mounted THEN ProfileUser ELSE user
  /\ oauthWrites' = oauthWrites + 1
  /\ oauthResult' = "user"
  /\ oauthPc' = "done"
  /\ route' = ThenRoute("user")
  /\ lastOp' = ""
  /\ lastEvent' = Handled("oauth:setUser")
  /\ UNCHANGED << challenge, isLoading, mounted, hydration, current, background,
                  sdkUser, storedUser, storedChallenge, expired >>
  /\ UNCHANGED << ranRef, effectRuns, exchangeResponse, errorMsg, oauthRuns,
                  exchangeCalls, exchangeRequests, exchangeRejected, oauthProfileCalls >>
  /\ OAuthFrame

\* await client.getProfile() rejects: handleOAuthCallback rejects with it, and
\* the page's catch runs.
OAuthProfileRejects ==
  /\ oauthPc = "profile"
  /\ oauthPc' = "timer"
  /\ errorMsg' = TRUE
  /\ lastOp' = ""
  /\ ProviderIdle
  /\ UNCHANGED << route, ranRef, effectRuns, exchangeResponse, oauthResult,
                  oauthRuns, exchangeCalls, exchangeRequests, exchangeRejected,
                  oauthProfileCalls, oauthWrites >>
  /\ OAuthFrame

\* setTimeout(() => navigate('/login', { replace: true }), 3000) fires.
OAuthTimer ==
  /\ oauthPc = "timer"
  /\ oauthPc' = "done"
  /\ route' = "/login"
  /\ lastOp' = ""
  /\ lastEvent' = Handled("oauth:timer")
  /\ UNCHANGED << user, challenge, isLoading, mounted, hydration, current, background,
                  sdkUser, storedUser, storedChallenge, expired >>
  /\ UNCHANGED << ranRef, effectRuns, exchangeResponse, oauthResult, errorMsg, oauthRuns,
                  exchangeCalls, exchangeRequests, exchangeRejected, oauthProfileCalls,
                  oauthWrites >>
  /\ OAuthFrame

\* The application: the provider with its pages, every event coming from an
\* operation a page has started.
NextApp ==
  \/ BackgroundProfileResolve
  \/ BackgroundProfileReject
  \/ HydrateInitialized
  \/ HydrateInitializeRejects
  \/ HydrateProfileResolve
  \/ HydrateProfileReject
  \/ HydrateStoredChallenge
  \/ HydrateStoredChallengeRejects
  \/ Unmount
  \/ LoginSubmit
  \/ \E resp \in Responses : LoginResolves(resp)
  \/ \E rej \in Rejections : LoginRejects(rej)
  \/ RespondSubmit
  \/ \E resp \in Responses : RespondResolves(resp)
  \/ \E rej \in Rejections : RespondRejects(rej)
  \/ ChallengeRedirect
  \/ OAuthEffect
  \/ \E resp \in Responses : OAuthExchangeResolves(resp)
  \/ \E err \in Errors : OAuthExchangeRejects(err)
  \/ OAuthRefreshFulfils
  \/ OAuthRefreshRejects
  \/ OAuthProfileResolves
  \/ OAuthProfileRejects
  \/ OAuthTimer
  \/ ProtectedRedirect

\* ---------------------------------------------- AuthProvider: construction

\* The body of the component function up to the effect, run with the two ref
\* objects that useRef returned holding a and c:
\*   if (!adapterRef.current) adapterRef.current = new RefreshingFetchAdapter()
\*   if (!clientRef.current) { clientRef.current = new NAuthClient(...);
\*                             adapter.setClient(clientRef.current) }
\* A newly constructed adapter has client = null until setClient.
ConstructsAdapter(a) == a = 0

ConstructsClient(c) == c = 0

RenderBody(a, c) ==
  /\ adaptersBuilt' = IF ConstructsAdapter(a) THEN adaptersBuilt + 1 ELSE adaptersBuilt
  /\ adapterRef' = IF ConstructsAdapter(a) THEN adaptersBuilt + 1 ELSE a
  /\ clientsBuilt' = IF ConstructsClient(c) THEN clientsBuilt + 1 ELSE clientsBuilt
  /\ clientRef' = IF ConstructsClient(c) THEN clientsBuilt + 1 ELSE c
  /\ setClientCalls' = IF ConstructsClient(c) THEN setClientCalls + 1 ELSE setClientCalls
  /\ client' = IF ConstructsClient(c)
                THEN NAuthClientRef
                ELSE IF ConstructsAdapter(a) THEN NoClient ELSE client
  /\ renders' = renders + 1
  /\ UNCHANGED << committed, handleVars, reqVars >>
  /\ UNCHANGED << pvars, variant, pageVars, oauthVars, cvars >>

\* React invokes the component with the hooks of its earlier invocation: the
\* first render, a re-render, or a double invocation that keeps the hooks.
Render ==
  /\ renders < MaxRenders
  /\ RenderBody(adapterRef, clientRef)

\* React invokes the mounting render a second time on hooks it has built
\* anew (StrictMode, the first render not yet committed): useRef(null) returns
\* new ref objects, and the objects of the first invocation are dropped.
StrictModeRender ==
  /\ renders < MaxRenders
  /\ renders = 1
  /\ ~committed
  /\ RenderBody(0, 0)

\* React commits the provider; from here its effect and its callers run.
Commit ==
  /\ renders > 0
  /\ ~committed
  /\ committed' = TRUE
  /\ UNCHANGED << adapterRef, clientRef, adaptersBuilt, clientsBuilt, setClientCalls,
                  renders >>
  /\ UNCHANGED << avars, pvars, variant, pageVars, oauthVars, cvars >>

\* A request of the committed provider's client through its adapter.
ProviderRequest(r, u) == committed /\ Request(r, u)

NextRender ==
  \/ Render
  \/ StrictModeRender
  \/ Commit
  \/ \E r \in Reqs, u \in Urls : ProviderRequest(r, u)
  \/ \E r \in Reqs : InnerResolve(r)
  \/ \E r \in Reqs, err \in Errors : InnerReject(r, err)
  \/ \E g \in RefreshIds : RefreshTokensResolve(g)
  \/ \E g \in RefreshIds, err \in Errors : RefreshTokensReject(g, err)
  \/ \E g \in RefreshIds : RefreshFinally(g)
  \/ \E g \in RefreshIds : RefreshSettle(g)
  \/ \E r \in Reqs : ResumeRetry(r)
  \/ \E r \in Reqs : ResumeThrow(r)
  \/ \E r \in Reqs, out \in RetryOutcomes : RetrySettle(r, out)

\* ---------------------------------------------------------- specifications

\* The adapter on its own, under every interleaving of its callers.
InitA ==
  /\ InitAdapter
  /\ InitProviderState
  /\ storedUser = NoUser
  /\ storedChallenge = NoChallenge
  /\ variant = CurrentVariant
  /\ InitPages

SpecAdapter == InitA /\ [][NextAdapter]_vars

\* The construction of the provider's adapter and client: React invokes the
\* component up to MaxRenders times, commits it, and the adapter then serves
\* the requests of the client it holds.  The provider's state and its pages
\* stay at rest.
InitRender ==
  /\ client = NoClient
  /\ AdapterAtRest
  /\ NotRendered
  /\ InitProviderState
  /\ storedUser = NoUser
  /\ storedChallenge = NoChallenge
  /\ variant = CurrentVariant
  /\ InitPages

SpecRender == InitRender /\ [][NextRender]_vars

\* The provider on its own, the SDK being its environment.
InitP == InitAdapter /\ InitProvider /\ variant \in Variants /\ InitPages

SpecProvider == InitP /\ [][NextProvider]_vars

\* The provider when every promise of the hydration function settles: each of
\* initialize(), getProfile() and getStoredChallenge() resolves or rejects.
HydrationStep ==
  \/ HydrateInitialized
  \/ HydrateInitializeRejects
  \/ HydrateProfileResolve
  \/ HydrateProfileReject
  \/ HydrateStoredChallenge
  \/ HydrateStoredChallengeRejects

SpecProviderLive == InitP /\ [][NextProvider]_vars /\ WF_vars(HydrationStep)

\* The provider with its pages; the adapter has its client (the provider
\* attaches it when it constructs them).
InitApp ==
  /\ client = NAuthClientRef
  /\ RenderedOnce
  /\ AdapterAtRest
  /\ InitProvider
  /\ variant \in Variants
  /\ InitAnyPage

SpecApp == InitApp /\ [][NextApp]_vars

\* The challenge flows: a page load of an entry page, of ChallengePage or of
\* MfaSetupPage, with or without a stored pending challenge of any kind.
InitChallenge ==
  /\ client = NAuthClientRef
  /\ RenderedOnce
  /\ AdapterAtRest
  /\ InitProviderState
  /\ storedUser = NoUser
  /\ storedChallenge \in { NoChallenge } \cup ChallengeKinds
  /\ variant \in Variants
  /\ PagesAtRest
  /\ NoParameters
  /\ route \in EntryRoutes \cup { "/auth/challenge", "/auth/mfa-setup" }
  /\ errorParam = FALSE
  /\ tokenParam = FALSE

SpecChallenge == InitChallenge /\ [][NextChallenge]_vars

\* MfaSetupPage loaded with a stored MFA_SETUP_REQUIRED challenge whose
\* challengeParameters.allowedMethods is any array of up to MaxAllowed method
\* names, or missing.
SetupChallenge == AuthResponse("MFA_SETUP_REQUIRED", "t5")

InitMfaSetup ==
  /\ client = NAuthClientRef
  /\ RenderedOnce
  /\ AdapterAtRest
  /\ InitProviderState
  /\ storedUser = NoUser
  /\ storedChallenge = SetupChallenge
  /\ variant \in Variants
  /\ PagesAtRest
  /\ rawAllowedMethods \in RawAllowedMethods
  /\ route = "/auth/mfa-setup"
  /\ errorParam = FALSE
  /\ tokenParam = FALSE

NextMfaSetup ==
  \/ HydrateInitialized
  \/ HydrateInitializeRejects
  \/ HydrateStoredChallenge
  \/ HydrateStoredChallengeRejects
  \/ MfaSetupToLogin
  \/ \E method \in Methods : HandleSelectMethod(method)
  \/ \E auto \in BOOLEAN : SetupDataResolves(auto)
  \/ \E rej \in Rejections : SetupDataRejects(rej)
  \/ HandleSetupRespond
  \/ \E resp \in ResponseKinds : SetupRespondResolves(resp)
  \/ \E rej \in Rejections : SetupRespondRejects(rej)

SpecMfaSetup == InitMfaSetup /\ [][NextMfaSetup]_vars

\* ----------------------------------------- claims: RefreshingFetchAdapter

\* Stated independently of the code's own test: the first attempt of r failed
\* with a NAuthClientError 401, on a URL that is not the refresh endpoint, with
\* the client attached.
NAuth401 == Err(TRUE, 401)
Hit401(r) == firstErr[r] = NAuth401 /\ url[r] # RefreshUrl /\ attachedAtFail[r]
Started == { r \in Reqs : pc[r] # "idle" }
Waiters(g) == { r \in Reqs : joined[r] = g }
TokensRejected(g) == refreshOutcome[g] = "err"

\* C1 as stated: whenever all N calls have failed first with 401 and are over,
\* one refreshTokens() call was made in total and each call was re-issued once.
C1_Original ==
  (Started # {} /\ \A r \in Started : Hit401(r) /\ pc[r] = "done")
    => (refreshCalls = 1 /\ \A r \in Started : attempts[r] = 2)

\* C1 (amended): for N >= 1 concurrent calls whose first attempts all fail with
\* 401 before the finally callback of the first refresh has cleared
\* refreshPromise, exactly one refreshTokens() call is issued in total; each
\* call is re-issued exactly once, after that refresh has fulfilled, and is not
\* re-issued when it rejects (the call then rejects with the refresh's rejection).
C1_SingleFlight ==
  (Started # {} /\ \A r \in Started : Hit401(r) /\ clearsAtJoin[r] = 0)
    => /\ refreshCalls = 1
       /\ \A r \in Started :
            /\ joined[r] = 1
            /\ pc[r] \in { "awaitRefresh", "inner2", "done" }
            /\ pc[r] = "awaitRefresh" => attempts[r] = 1
            /\ pc[r] \in { "inner2", "done" } =>
                 IF refreshOutcome[1] = "ok"
                   THEN attempts[r] = 2 /\ retryStage[r] = "fulfilled"
                   ELSE attempts[r] = 1 /\ result[r] = RefreshRejection(1)

\* Three calls shared one fulfilled refresh and each has been re-issued once.
C1_Witness ==
  /\ Cardinality(Started) >= 3
  /\ \A r \in Started : Hit401(r) /\ clearsAtJoin[r] = 0 /\ pc[r] = "done" /\ attempts[r] = 2
  /\ refreshCalls = 1

\* C2: a request to the refresh endpoint that fails with 401 is never
\* re-issued and never calls doRefresh()/refreshTokens(); its error is thrown
\* as is.  The request refreshTokens() itself sends never awaits its own promise.
C2_RefreshEndpointNeverRefreshes ==
  /\ \A r \in Reqs :
       (url[r] = RefreshUrl /\ firstErr[r] = NAuth401)
         => /\ pc[r] = "done"
            /\ result[r] = NAuth401
            /\ attempts[r] = 1
            /\ doRefreshCalls[r] = 0
            /\ joined[r] = NULL
  /\ \A g \in RefreshIds : refreshStage[g] # "selfAwait"

\* A caller's request to the refresh endpoint got 401 with the client attached,
\* and a refreshTokens() call of the adapter has rejected.
C2_Witness ==
  /\ \E r \in Reqs : url[r] = RefreshUrl /\ firstErr[r] = NAuth401 /\ attachedAtFail[r]
  /\ \E g \in RefreshIds : refreshStage[g] = "rejected"

\* C3 as stated: a call whose awaited refresh rejected is still re-issued once
\* and ends with the retry's outcome.
C3_Original ==
  \A r \in Reqs :
    (Hit401(r) /\ pc[r] = "done" /\ TokensRejected(joined[r]))
      => (attempts[r] = 2 /\ result[r].kind \in { "response", "error" })

\* C3 (amended): when the refresh a call awaits rejects, the call is not
\* re-issued: it made exactly one inner attempt and rejects with the refresh's
\* rejection.
C3_NoRetryAfterRejectedRefresh ==
  \A r \in Reqs :
    (Hit401(r) /\ joined[r] # NULL /\ TokensRejected(joined[r]))
      => /\ attempts[r] = 1
         /\ pc[r] \in { "awaitRefresh", "done" }
         /\ pc[r] = "done" => result[r] = RefreshRejection(joined[r])

C3_Witness ==
  \E r \in Reqs :
    /\ Hit401(r) /\ TokensRejected(joined[r])
    /\ pc[r] = "done" /\ result[r] = RefreshRejection(joined[r])

\* C4: when refreshTokens() rejects, every call awaiting that promise observes
\* the rejection: once the promise has rejected each waiter either can resume
\* (by throwing) or has ended with that rejection; none is re-issued, and
\* exactly one of the waiters called refreshTokens().
C4_RejectionReachesEveryWaiter ==
  \A g \in RefreshIds :
    TokensRejected(g) =>
      /\ \A r \in Waiters(g) :
           /\ pc[r] \in { "awaitRefresh", "done" }
           /\ (pc[r] = "awaitRefresh" /\ refreshStage[g] = "rejected") => ENABLED ResumeThrow(r)
           /\ pc[r] = "done" => result[r] = RefreshRejection(g)
           /\ doRefreshCalls[r] = 1
      /\ Cardinality({ r \in Waiters(g) : startedRefresh[r] }) = 1
      /\ refreshStage[g] \in { "failed", "clearedErr", "rejected" }

\* Two waiters of one rejected refresh have both ended with its rejection.
C4_Witness ==
  \E g \in RefreshIds :
    /\ refreshStage[g] = "rejected"
    /\ Cardinality({ r \in Waiters(g) : pc[r] = "done" /\ result[r] = RefreshRejection(g) }) >= 2

\* C5: at most one refreshTokens() call is in flight; refreshPromise is
\* non-null exactly while one is (from the call until the finally callback),
\* and it is then that call's promise.
InFlight(g) == refreshStage[g] \in { "pending", "resolved", "failed", "selfAwait" }

C5_AtMostOneRefreshInFlight ==
  /\ Cardinality({ g \in RefreshIds : InFlight(g) }) <= 1
  /\ refreshPromise # NULL <=> \E g \in RefreshIds : InFlight(g)
  /\ refreshPromise # NULL => InFlight(refreshPromise)
  /\ refreshCalls = Cardinality({ g \in RefreshIds : refreshStage[g] # "none" })
  /\ refreshCalls = Cardinality({ r \in Reqs : startedRefresh[r] })

\* A second refresh is pending, shared by two waiters, after the first settled.
C5_Witness ==
  /\ refreshPromise = 2
  /\ refreshStage[2] = "pending"
  /\ Cardinality({ r \in Waiters(2) : pc[r] = "awaitRefresh" }) >= 2

\* C6: once the finally callback of a refresh has run -- on success or on
\* rejection, and before the shared promise settles -- refreshPromise no longer
\* holds it, and a 401 handled after k callbacks have run awaits refresh k + 1:
\* it starts a new refreshTokens() call instead of reusing a settled promise.
C6_ClearedOnSettle ==
  /\ \A g \in RefreshIds :
       refreshStage[g] \in { "clearedOk", "clearedErr", "fulfilled", "rejected" }
         => refreshPromise # g
  /\ \A r \in Reqs : joined[r] # NULL => joined[r] = clearsAtJoin[r] + 1
  /\ clears = Cardinality({ g \in RefreshIds : refreshOutcome[g] # "" /\ ~InFlight(g) })

\* After the first refresh rejected, a later 401 started the second one.
C6_Witness ==
  \E r \in Reqs :
    /\ refreshStage[1] = "rejected"
    /\ joined[r] = 2 /\ startedRefresh[r] /\ clearsAtJoin[r] = 1

\* C7: one call makes at most two inner attempts and at most one doRefresh();
\* a call that was re-issued ends with the retry's outcome, a second 401
\* included; a call never waits on anything but the transport or a refresh
\* that is still progressing or has settled, in which case it can resume.
Progressing(g) ==
  \/ refreshStage[g] = "pending"
  \/ refreshStage[g] \in { "resolved", "failed" } /\ ENABLED RefreshFinally(g)
  \/ refreshStage[g] \in { "clearedOk", "clearedErr" } /\ ENABLED RefreshSettle(g)

C7_AtMostOneRetry ==
  \A r \in Reqs :
    /\ attempts[r] <= 2
    /\ doRefreshCalls[r] <= 1
    /\ attempts[r] = 2 => (doRefreshCalls[r] = 1 /\ pc[r] \in { "inner2", "done" })
    /\ (attempts[r] = 2 /\ pc[r] = "done") => result[r].kind \in { "response", "error" }
    /\ pc[r] = "awaitRefresh" =>
         \/ Progressing(joined[r])
         \/ ENABLED ResumeRetry(r)
         \/ ENABLED ResumeThrow(r)

\* A retry failed with a second 401 and the call ended with it, one refresh made.
C7_Witness ==
  \E r \in Reqs :
    /\ pc[r] = "done" /\ attempts[r] = 2 /\ result[r] = NAuth401
    /\ refreshCalls = 1

\* C8: a first attempt that fails with anything but a NAuthClientError 401 is
\* rethrown unchanged in that step: no refreshTokens() call, no retry, and
\* refreshPromise and the promise chains are left as they were; the call stays
\* ended.
Non401Errors == { e \in Errors : ~(e.nauth /\ e.statusCode = 401) }

C8_Non401Rethrown ==
  [][ \A r \in Reqs :
        /\ (pc[r] = "inner1" /\ pc'[r] # "inner1" /\ firstErr'[r] \in Non401Errors)
             => /\ pc'[r] = "done"
                /\ result'[r] = firstErr'[r]
                /\ attempts'[r] = 1
                /\ doRefreshCalls'[r] = 0
                /\ refreshPromise' = refreshPromise
                /\ refreshCalls' = refreshCalls
                /\ refreshStage' = refreshStage
        /\ (pc[r] = "done" /\ firstErr[r] \in Non401Errors)
             => (pc'[r] = "done" /\ attempts'[r] = 1 /\ result'[r] = result[r])
    ]_vars

\* A non-401 error was rethrown while a refresh of another call was pending.
C8_Witness ==
  \E r \in Reqs :
    /\ firstErr[r] = Err(FALSE, 401) /\ attachedAtFail[r] /\ url[r] = ProfileUrl
    /\ pc[r] = "done" /\ result[r] = Err(FALSE, 401)
    /\ refreshPromise # NULL

\* --------------------------------------------------- claims: AuthProvider

\* C9: right after the auth:logout or auth:session_expired handler has run
\* (mounted), user and challenge are both null: the one update of that handler
\* clears both, so no state shows one of them cleared by the event and the
\* other not.
C9_LogoutClearsBoth ==
  lastEvent.type \in { "auth:logout", "auth:session_expired" }
    => (user = NoUser /\ challenge = NoChallenge)

\* The session_expired handler ran in a state with a user and a pending challenge.
C9_Witness ==
  /\ lastEvent.type = "auth:session_expired"
  /\ lastEvent.user # NoUser /\ lastEvent.challenge # NoChallenge
  /\ user = NoUser /\ challenge = NoChallenge

\* C10 as stated: from the auth:session_expired handler until the next
\* auth:success, user is null, whatever was in flight when the event fired.
C10_Original == expired => user = NoUser

\* C11 as stated: a completion of the background getProfile() of the
\* auth:success handler, resolved or rejected, never leaves user null.
C11_Original ==
  lastEvent.type \in { "background:profile", "background:fallback" }
    => user # NoUser

\* C11: when the background getProfile() of the auth:success handler fails,
\* user becomes the user the client holds in its cache at that moment; it is
\* non-null (isAuthenticated true) whenever the client still holds a user,
\* that is unless auth:logout or auth:session_expired has fired since.
C11_FallbackIsClientCache ==
  /\ lastEvent.type = "background:fallback" => user = sdkUser
  /\ lastEvent.type \in { "background:profile", "background:fallback" }
       => (sdkUser # NoUser => user # NoUser)

\* The fetch failed while the client held its user, and user was kept.
C11_Witness ==
  /\ lastEvent.type = "background:fallback"
  /\ lastEvent.user = CachedUser
  /\ sdkUser = CachedUser
  /\ user = CachedUser

\* C12: in startup hydration (mounted), a failed getProfile() leaves user = the
\* cached user read before the call, which is not null; a successful one
\* leaves user = the fetched profile; with no cached user, user is null.
C12_HydrationUser ==
  /\ lastEvent.type = "hydrate:fallback" => (user = current /\ user # NoUser)
  /\ lastEvent.type = "hydrate:profile" => user = ProfileUser
  /\ lastEvent.type = "hydrate:no user" => (user = NoUser /\ current = NoUser)

\* getProfile() failed during hydration and the cached user was kept.
C12_Witness ==
  /\ lastEvent.type = "hydrate:fallback"
  /\ current = CachedUser
  /\ user = CachedUser
  /\ mounted

\* C13 as stated: right after the auth:success handler has run (mounted),
\* challenge is null and user is not null.
C13_Original ==
  lastEvent.type = "auth:success" => (challenge = NoChallenge /\ user # NoUser)

\* ------------------------------------------------ claims: pages and OAuth

MfaS1 == AuthResponse("MFA_REQUIRED", "s1")

\* The landing page has navigated to the login route.
PageAtLoginAfterLanding == route # "/auth/callback" /\ route # "/dashboard"

\* C14: starting logged out, right after a login has resolved with a pending
\* challenge (mounted), challenge is that response and user is null; after a
\* response to it that the remote service accepted with no further challenge,
\* challenge is null, and user is the fetched profile once the profile fetch of
\* the auth:success handler has resolved.
C14_LoginThenRespond ==
  /\ ( /\ lastOp = "login" /\ lastEvent.type = "auth:challenge"
       /\ lastEvent.user = NoUser )
       => (challenge = loginResponse /\ user = NoUser)
  /\ (lastOp = "respond" /\ mounted /\ ~HasChallengeName(respondResponse))
       => /\ challenge = NoChallenge
          /\ lastEvent.type = "background:profile" => user = ProfileUser

\* The whole scenario has run: login -> MFA_REQUIRED s1, response accepted
\* with no further challenge, profile fetched.
C14_Witness ==
  /\ loginResponse = MfaS1 /\ answered = MfaS1
  /\ lastOp = "respond" /\ respondResponse = Terminal
  /\ lastEvent.type = "background:profile"
  /\ mounted /\ background = 0
  /\ challenge = NoChallenge /\ user = ProfileUser
  /\ route = "/dashboard"

\* C15: once handleSubmit has finished after an accepted response (mounted),
\* the controller's challenge and the route state are both null (terminal) or
\* both the new response (chained), and neither carries the answered session.
C15_AnsweredSessionGone ==
  (lastOp = "respond" /\ lastEvent.type \in { "auth:success", "auth:challenge" })
    => /\ challenge.session # answered.session
       /\ routeChallenge.session # answered.session
       /\ ActiveChallenge.session # answered.session
       /\ IF HasChallengeName(respondResponse)
            THEN challenge = respondResponse /\ routeChallenge = respondResponse
            ELSE challenge = NoChallenge /\ routeChallenge = NoChallenge

\* A chained response has replaced the answered challenge in both places.
C15_Witness ==
  /\ lastOp = "respond" /\ lastEvent.type = "auth:challenge"
  /\ answered = MfaS1
  /\ HasChallengeName(respondResponse)
  /\ challenge = respondResponse /\ routeChallenge = respondResponse
  /\ route = "/auth/challenge"

\* C16 as stated: once the remote service has rejected the exchange token, the
\* exchange request has been issued exactly once, handleOAuthCallback ends by
\* resolving with no authenticated user, completion does not set user, and the
\* page ends on the login route.
C16_Original ==
  exchangeRejected
    => /\ exchangeRequests = 1
       /\ oauthPc \in { "timer", "done" } => oauthResult = "no user"
       /\ oauthPc = "done" => PageAtLoginAfterLanding
       /\ oauthWrites = 0

\* C17: however often the landing effect is invoked on one page load,
\* handleOAuthCallback runs at most once: exchangeSocialRedirect and getProfile
\* are each called at most once by it and it writes state at most once.
C17_CompletionRunsOnce ==
  /\ oauthRuns <= 1
  /\ exchangeCalls <= 1
  /\ oauthProfileCalls <= 1
  /\ oauthWrites <= 1
  /\ effectRuns > 1 => ranRef

\* The effect has been invoked twice and the completion has run once, to its end.
C17_Witness ==
  /\ effectRuns = 2 /\ oauthRuns = 1
  /\ exchangeCalls = 1 /\ oauthProfileCalls = 1 /\ oauthWrites = 1
  /\ oauthResult = "user"

\* C18 as stated: when exchangeSocialRedirect has resolved with a pending
\* challenge, getProfile() is not called by the completion, user is not set by
\* it, and right after that step (mounted) challenge is that response.
C18_Original ==
  HasChallengeName(exchangeResponse)
    => /\ oauthProfileCalls = 0
       /\ oauthResult # "user"
       /\ (lastOp = "exchange" /\ lastEvent.type = "auth:challenge")
            => challenge = exchangeResponse

\* C19 as stated: when the completion has set user from the profile it
\* fetched (no pending challenge; mounted), user is the fetched profile and
\* challenge is null.
C19_Original ==
  (lastEvent.type = "oauth:setUser" /\ mounted /\ ~HasChallengeName(exchangeResponse))
    => (user = ProfileUser /\ challenge = NoChallenge)

\* C20: a landing with the error parameter makes no exchangeSocialRedirect or
\* getProfile call and does not run handleOAuthCallback; the effect leaves
\* user and challenge as they were and routes to login.
C20_ErrorAborts ==
  errorParam
    => /\ oauthRuns = 0 /\ exchangeCalls = 0 /\ oauthProfileCalls = 0 /\ oauthWrites = 0
       /\ (lastEvent.type = "oauth:effect" /\ effectRuns = 1)
            => /\ route = "/login"
               /\ user = lastEvent.user
               /\ challenge = lastEvent.challenge

\* The effect has run on a landing with the error parameter (and an exchange
\* token) while a challenge was held.
C20_Witness ==
  /\ errorParam /\ tokenParam
  /\ lastEvent.type = "oauth:effect" /\ effectRuns = 1
  /\ lastEvent.challenge # NoChallenge
  /\ challenge = lastEvent.challenge
  /\ route = "/login"

\* ------------------------------------- claims: teardown, loading, responses

\* C21: once the effect's cleanup has run, no step -- an auth event of the SDK,
\* a hydration step that was pending, a background getProfile() completion --
\* changes user, challenge or isLoading.
C21_NothingAfterUnmount ==
  [][ ~mounted => /\ user' = user
                  /\ challenge' = challenge
                  /\ isLoading' = isLoading ]_vars

\* After the cleanup the SDK has dropped its user (auth:logout or
\* auth:session_expired) and the pending hydration function has returned; the
\* provider still holds the user and the loading flag it had.
C21_Witness ==
  /\ ~mounted
  /\ hydration = "returned"
  /\ background = 0
  /\ user = CachedUser /\ sdkUser = NoUser
  /\ isLoading

\* C22 as stated: while the provider stays mounted, isLoading eventually
\* becomes false, whether initialize(), getProfile() and getStoredChallenge()
\* resolve or reject.
C22_Original == <>(~mounted \/ ~isLoading)

\* The decision table: the fields a response to a challenge of each kind has.
VerifyKinds == { "VERIFY_EMAIL", "VERIFY_PHONE" }

TableFields(kind, parameters, r) ==
  /\ r.type = kind
  /\ kind \in VerifyKinds => r.code # Absent
  /\ kind = "MFA_REQUIRED" =>
       /\ r.method = parameters
       /\ r.code = Absent <=> r.method = "totp"
  /\ kind = "MFA_SETUP_REQUIRED" => (r.method # Absent /\ r.setupData # NoSetupData)
  /\ kind = "FORCE_CHANGE_PASSWORD" => r.newPassword # Absent

\* C23 as stated: every response sent for a pending challenge has the fields
\* of the decision table for the challenge's kind: code for VERIFY_EMAIL and
\* VERIFY_PHONE; the method of challengeParameters for MFA_REQUIRED, and code
\* left out exactly when that method is TOTP; method and setupData for
\* MFA_SETUP_REQUIRED; newPassword for FORCE_CHANGE_PASSWORD.
C23_Original ==
  sent # NoResponse
    => TableFields(answered.challengeName, answered.challengeParameters, sent)

\* The kinds whose code the remote service sends, and can send again.
ResendSupported(c) ==
  \/ c.challengeName \in VerifyKinds
  \/ c.challengeName = "MFA_REQUIRED" /\ c.challengeParameters # "totp"

\* ChallengePage shows c and no resend is in flight or cooling down.
ShowsChallenge(c) ==
  /\ mounted /\ route = "/auth/challenge" /\ ~isLoading
  /\ ActiveChallenge = c /\ resendPc = "idle"

\* C24 as stated: resendCode is only ever called for a challenge whose kind
\* supports resend (VERIFY_EMAIL, VERIFY_PHONE, MFA_REQUIRED with a non-TOTP
\* method), never for MFA_REQUIRED with TOTP or FORCE_CHANGE_PASSWORD, and it
\* can be called whenever the page shows a challenge of a supporting kind.
C24_Original ==
  /\ resent # NoChallenge => ResendSupported(resent)
  /\ \A c \in ChallengeKinds :
       (ShowsChallenge(c) /\ ResendSupported(c)) => ENABLED HandleResend

\* C25: whenever ChallengePage holds an MFA_SETUP_REQUIRED challenge -- handed
\* over in the route state by a login, a signup or a chained response, or
\* hydrated from storage -- and the provider has loaded, its effect navigates
\* to the MFA setup page with that challenge and no handler of ChallengePage
\* can run; a pending response always leads to ChallengePage first; and no
\* response built by ChallengePage is for an MFA_SETUP_REQUIRED challenge:
\* responses of type MFA_SETUP_REQUIRED come from MfaSetupPage only.
C25_MfaSetupHasItsOwnFlow ==
  /\ ( /\ mounted /\ route = "/auth/challenge" /\ ~isLoading
       /\ ActiveChallenge.challengeName = "MFA_SETUP_REQUIRED" )
       => /\ ENABLED MfaSetupRedirect
          /\ ~ENABLED RespondSubmit
          /\ ~ENABLED HandleResend
  /\ (lastOp \in { "login", "signup", "respond", "setup respond" }
        /\ routeChallenge.challengeName = "MFA_SETUP_REQUIRED")
       => route = "/auth/challenge"
  /\ routeChallenge.challengeName = "MFA_SETUP_REQUIRED"
       => route \in { "/auth/challenge", "/auth/mfa-setup" }
  /\ sent.type = "MFA_SETUP_REQUIRED" => sentBy = "MfaSetupPage"
  /\ sentBy = "ChallengePage" => answered.challengeName # "MFA_SETUP_REQUIRED"

\* A chained MFA_SETUP_REQUIRED response to a VERIFY_EMAIL code has been
\* passed on to the MFA setup page.
C25_Witness ==
  /\ route = "/auth/mfa-setup"
  /\ routeChallenge.challengeName = "MFA_SETUP_REQUIRED"
  /\ routeChallenge = respondResponse
  /\ sentBy = "ChallengePage" /\ answered.challengeName = "VERIFY_EMAIL"
  /\ step = "select" /\ selectedMethod = NoMethod

\* C26: in the step in which MfaSetupPage sends a response, getSetupData has
\* succeeded on this page for the method the response names, and the
\* response's setupData is { deviceId } if that setup data was auto-completed
\* and { code } if not; right after a failed getSetupData the page is at
\* method selection with no method selected; and the page is past method
\* selection only with the setup data of the selected method.
C26_SetupDataBeforeResponse ==
  [][ /\ (setupPc # "respond" /\ setupPc' = "respond") =>
           /\ sentBy' = "MfaSetupPage" /\ sent'.type = "MFA_SETUP_REQUIRED"
           /\ setupData # NoSetupResult
           /\ sent'.method = setupData.method /\ sent'.method \in Methods
           /\ sent'.setupData = IF setupData.autoCompleted
                                  THEN SetupData(DeviceId, Absent)
                                  ELSE SetupData(Absent, TypedCode)
      /\ (sent' # sent /\ sent'.type = "MFA_SETUP_REQUIRED") => setupPc' = "respond"
      /\ lastOp' = "setup rejected" =>
           (step' = "select" /\ selectedMethod' = NoMethod /\ setupPc' = "idle")
      /\ step' # "select" =>
           (setupData' # NoSetupResult /\ setupData'.method = selectedMethod')
    ]_vars

\* An auto-completed setup is being answered with its device id.
C26_Witness ==
  /\ setupPc = "respond"
  /\ setupData = SetupResult("sms", TRUE)
  /\ sent.method = "sms"
  /\ sent.setupData = SetupData(DeviceId, Absent)
  /\ answered.challengeName = "MFA_SETUP_REQUIRED"

\* The step in which login(), signup() or respondToChallenge() rejects.
RejectionStep ==
  /\ lastOp' = "rejected"
  /\ \/ loginPc = "pending" /\ loginPc' = "idle"
     \/ respondPc = "pending" /\ respondPc' = "idle"

\* C27 as stated: when login, signup or respondToChallenge fails, the
\* rejection reaches the page that called it (its catch runs, it does not
\* navigate), and user, challenge and isLoading are what they were.
C27_Original ==
  [][ RejectionStep => /\ route' = route
                       /\ user' = user
                       /\ challenge' = challenge
                       /\ isLoading' = isLoading ]_vars

\* ------------------------------------------- claims: handlers, derived value, retry

\* C28: while the provider is mounted, the auth:challenge handler sets
\* challenge to the event's payload (a pending response) and leaves user and
\* isLoading as they were.
C28_ChallengeHandlerFrame ==
  [][ lastEvent'.type = "auth:challenge" =>
        /\ mounted
        /\ challenge' = storedChallenge' /\ challenge' # NoChallenge
        /\ user' = user
        /\ isLoading' = isLoading ]_vars

\* The handler ran during hydration for a signed-in user and replaced a
\* pending challenge by another one.
C28_Witness ==
  /\ lastEvent.type = "auth:challenge"
  /\ lastEvent.user # NoUser /\ user = lastEvent.user
  /\ lastEvent.challenge # NoChallenge /\ challenge # lastEvent.challenge
  /\ challenge # NoChallenge
  /\ isLoading

\* C29: in every state of the provider, isAuthenticated is true exactly when
\* user is not null.
C29_IsAuthenticated == isAuthenticated <=> user # NoUser

\* The provider shows a user the SDK no longer holds, and reports
\* authenticated.
C29_Witness == isAuthenticated /\ user = ProfileUser /\ sdkUser = NoUser

\* C30: a request is re-issued only once the refresh it awaited has
\* fulfilled (refreshTokens() itself having resolved), never while that
\* refresh is pending or after it rejected; it is re-issued with the config
\* of its first attempt; and no request is issued a third time.
C30_RetryAfterRefresh ==
  \A r \in Reqs :
    /\ attempts[r] <= 2
    /\ attempts[r] = 2 =>
         /\ joined[r] # NULL
         /\ retryStage[r] = "fulfilled"
         /\ refreshOutcome[joined[r]] = "ok"
         /\ retryConfig[r] = url[r]
    /\ attempts[r] < 2 => retryConfig[r] = << >>
    /\ (pc[r] = "awaitRefresh" \/ result[r].kind = "refreshRejection") => attempts[r] = 1

\* Two requests were re-issued after the one refresh they shared, each with
\* its own config, while a later request waits for a second refresh.
C30_Witness ==
  /\ attempts[1] = 2 /\ attempts[2] = 2
  /\ joined[1] = 1 /\ joined[2] = 1
  /\ retryConfig[1] = ProfileUrl /\ retryConfig[2] = ProfileUrl
  /\ pc[3] = "awaitRefresh" /\ joined[3] = 2 /\ refreshStage[2] = "pending"

\* ------------------------------------------- claims: loading, tokens, routing

\* C31: the provider starts with isLoading true, user null and challenge
\* null; isLoading becomes false only in the step that ends hydration, after
\* the user step has finished, and that step sets challenge to the stored
\* challenge; once false, isLoading never becomes true again.
C31_LoadingEndsOnce ==
  /\ isLoading = TRUE
  /\ user = NoUser
  /\ challenge = NoChallenge
  /\ [][ /\ (isLoading /\ ~isLoading') =>
               /\ mounted
               /\ hydration = "getStoredChallenge" /\ hydration' = "done"
               /\ challenge' = storedChallenge
          /\ (~isLoading => ~isLoading')
          /\ (hydration \in { "initialize", "getProfile" } => isLoading') ]_vars

\* Hydration has ended for a stored user with a stored challenge, and a later
\* event has run.
C31_Witness ==
  /\ ~isLoading /\ hydration = "done"
  /\ challenge # NoChallenge /\ challenge = storedChallenge
  /\ user = ProfileUser
  /\ lastEvent.type = "auth:challenge"

\* A challenge a page can act on: it has a challengeName and a session.
Actionable(c) == c # NoChallenge /\ HasChallengeName(c) /\ c.session # ""

\* C32 as stated: every challenge response, resend request and setup-data
\* request is sent for a challenge that has a challengeName and a session,
\* with session equal to that challenge's session and, for a response, type
\* equal to its challengeName.
C32_Original ==
  [][ /\ ( \/ respondPc # "pending" /\ respondPc' = "pending"
           \/ setupPc # "respond" /\ setupPc' = "respond" ) =>
             /\ Actionable(ActiveChallenge)
             /\ sent'.type = ActiveChallenge.challengeName
             /\ sent'.session = ActiveChallenge.session
      /\ (resendPc # "pending" /\ resendPc' = "pending") =>
             (Actionable(ActiveChallenge) /\ resent'.session = ActiveChallenge.session)
      /\ (setupPc # "getSetupData" /\ setupPc' = "getSetupData") =>
             (Actionable(ActiveChallenge) /\ setupRequest'.session = ActiveChallenge.session)
      /\ ( \/ sent' # sent
           \/ resent' \notin { resent, NoChallenge }
           \/ setupRequest' \notin { setupRequest, NoChallenge } ) =>
             Actionable(ActiveChallenge) ]_vars

\* The step in which a response to a challenge resolves, on ChallengePage or
\* on MfaSetupPage.
ResponseResolvesStep ==
  \/ respondPc = "pending" /\ respondPc' = "idle" /\ lastOp' = "respond"
  \/ setupPc = "respond" /\ setupPc' = "idle" /\ lastOp' = "setup respond"

\* C33: when a response to a challenge resolves (provider mounted), on
\* ChallengePage or on MfaSetupPage: if the new response has a challengeName,
\* it is the provider's challenge and the route state, and the route is the
\* challenge page; otherwise challenge and route state are null and the route
\* is the dashboard.
C33_AfterResponse ==
  [][ (mounted /\ ResponseResolvesStep) =>
        IF HasChallengeName(respondResponse')
          THEN /\ challenge' = respondResponse'
               /\ routeChallenge' = respondResponse'
               /\ route' = "/auth/challenge"
          ELSE /\ challenge' = NoChallenge
               /\ routeChallenge' = NoChallenge
               /\ route' = "/dashboard" ]_vars

\* The MFA setup flow has been answered with a further challenge, which is
\* now on the challenge page.
C33_Witness ==
  /\ lastOp = "setup respond" /\ mounted
  /\ sentBy = "MfaSetupPage"
  /\ HasChallengeName(respondResponse)
  /\ challenge = respondResponse /\ routeChallenge = respondResponse
  /\ route = "/auth/challenge"

\* C34 as stated: the OAuth landing page navigates to the dashboard only
\* when handleOAuthCallback has produced an authenticated user, and not when
\* it reports no user or a pending challenge.
C34_Original ==
  [][ (route = "/auth/callback" /\ route' = "/dashboard") =>
        (oauthResult' = "user" /\ ~HasChallengeName(exchangeResponse')) ]_vars

\* The step in which a login, a signup or a response to a challenge resolves
\* with no further challenge and the page navigates to the dashboard.
ArrivesAtDashboard ==
  /\ mounted
  /\ lastOp' \in { "login", "signup", "respond", "setup respond" }
  /\ route # "/dashboard" /\ route' = "/dashboard"

\* C35 as stated: the protected route redirects to login only when isLoading
\* is false and user is null; and when a login, a signup or a response to a
\* challenge resolves with no further challenge and the page navigates to the
\* dashboard, isAuthenticated is true in the state the dashboard is first
\* rendered in, so the protected route does not redirect.
C35_Original ==
  [][ /\ (route = "/dashboard" /\ lastOp' = "bounced") =>
             (~isLoading /\ user = NoUser /\ route' = "/login")
      /\ ArrivesAtDashboard => (isAuthenticated' /\ ~RedirectsToLogin') ]_vars

\* ChallengePage and MfaSetupPage.
ChallengePages == { "/auth/challenge", "/auth/mfa-setup" }

\* C36: a challenge page navigates to the login page only when isLoading is
\* false and neither the route state nor the provider holds a challenge; and
\* when hydration ends on a challenge page loaded without route state while a
\* challenge is stored, that challenge is the one the page shows and acts on.
C36_ChallengeSurvivesReload ==
  [][ /\ (route \in ChallengePages /\ route' = "/login") =>
             /\ ~isLoading
             /\ routeChallenge = NoChallenge /\ challenge = NoChallenge
      /\ ( /\ isLoading /\ ~isLoading'
           /\ route \in ChallengePages /\ routeChallenge = NoChallenge
           /\ storedChallenge # NoChallenge ) =>
             /\ challenge' = storedChallenge
             /\ ActiveChallenge' = storedChallenge
             /\ route' = route
      /\ (respondPc # "pending" /\ respondPc' = "pending") =>
             (~isLoading /\ answered' = ActiveChallenge /\ answered' # NoChallenge) ]_vars

\* ChallengePage was loaded with no route state, hydration restored the
\* stored challenge, and the page has sent a response to it.
C36_Witness ==
  /\ route = "/auth/challenge" /\ routeChallenge = NoChallenge
  /\ hydration = "done" /\ ~isLoading
  /\ loginResponse = NoChallenge
  /\ challenge = storedChallenge /\ challenge.challengeName = "VERIFY_EMAIL"
  /\ respondPc = "pending" /\ answered = challenge /\ sent.session = challenge.session

\* C37 as stated: whenever MfaSetupPage shows its selection step for an
\* MFA_SETUP_REQUIRED challenge, whatever the challenge's allowedMethods, at
\* least one method is offered.
C37_Original ==
  (MfaRenders /\ step = "select" /\ ActiveChallenge.challengeName = "MFA_SETUP_REQUIRED")
    => \E method \in Methods : Offers(method)

\* ------------------------------------------------------ claims: construction

\* C38 (as stated): the adapter and the client are each constructed exactly
\* once per provider, across re-renders and double invocation, and setClient
\* is called exactly once, before any request is issued, so that every request
\* through the adapter sees an attached client; a 401 met with no client
\* attached is rethrown with no refresh and no retry.
C38_Original ==
  /\ adaptersBuilt <= 1
  /\ clientsBuilt <= 1
  /\ setClientCalls <= 1
  /\ renders > 0 => (adaptersBuilt = 1 /\ clientsBuilt = 1 /\ setClientCalls = 1)
  /\ \A r \in Reqs :
       /\ pc[r] # "idle" => client # NoClient
       /\ (pc[r] = "done" /\ firstErr[r] = NAuth401 /\ ~attachedAtFail[r]) =>
            /\ result[r] = firstErr[r]
            /\ attempts[r] = 1
            /\ doRefreshCalls[r] = 0

====
